---- MODULE Spec2Model ----
(***************************************************************************)
(* Resumable XLSX export pipeline of src/src/ingest_script/parcing.js      *)
(* (the same code is duplicated in src/src/db/ingest/parcing_csv2xlsx.js). *)
(*                                                                         *)
(* The model covers the persisted job and queue records (Script            *)
(* Properties), the output folder (XLSX parts and transient temp sheets),  *)
(* the pending resume trigger, the watchdog, and the position of every     *)
(* running handler invocation inside resume_all_v2 /                       *)
(* processJobStreamingV2_, and the v1 pipeline run_range /                 *)
(* resume_current_job / processJobStreaming_ with its own job record,      *)
(* output folder and trigger.                                              *)
(*                                                                         *)
(* The configuration constants of the script (300000, 100000, 10000,       *)
(* 10000000) are far beyond explicit-state checking.  The code uses them   *)
(* only through min/compare/divide, so they are state that Init draws from *)
(* small ranges and that no action changes.                                *)
(***************************************************************************)
EXTENDS Integers, Sequences, FiniteSets, TLC

\* ------------------------------------------------------------------ bounds
MaxListed     == 6   \* .csv files in the folder run_all_v2 lists
MaxChars      == 5   \* characters of a free-form line given to splitPipesQuoted
MaxCells      == 11  \* fields of a pipe-joined line given to splitPipesQuoted
MaxEvents     == 4   \* data lines handed to parseLinesToTable
MaxLines      == 5   \* non-empty lines of a CSV file, header included
MaxBudget     == 3   \* largest MAX_WRITE_ROWS_PER_RUN tried
NSlots        == 2   \* handler invocations that can be in flight at once

\* ------------------------------------------------------- program constants
DerivedFields           == 11
BETWEEN_PARTS_DELAY_MIN == 1
BETWEEN_FILES_DELAY_MIN == 2

VARIABLES
  MAX_WRITE_ROWS_PER_RUN,  \* config: data rows exported per execution
  AUTO_SPLIT_CHUNK_ROWS,   \* config: data rows per XLSX part
  WRITE_CHUNK_ROWS,        \* config: rows per setValues block
  SHEET_CELL_LIMIT,        \* config: worksheet cell limit
  csvLines,                \* file id -> number of non-empty lines of the CSV
  queue,                   \* Script Property JOB_QUEUE_KEY_V2
  job,                     \* Script Property JOB_KEY_V2
  xlsx,                    \* output folder: <<file, part>> -> rows of the XLSX
  temps,                   \* output folder: temp Google Sheets, by <<file, part>>
  resumeTriggers,          \* number of pending triggers of resume_all_v2_safe
  watchdogInstalled,       \* the every-10-minutes trigger of watchdog_v2 exists
  log,                     \* 'runs' rows appended by the latest handler step
  inv,                     \* slot -> the handler invocation running in it
  folder,                  \* ids of the CSV files now in the Drive folder
  runner,                  \* the pipeline the operator drives: "v1" or "v2"
  jobV1,                   \* Script Property JOB_KEY (v1)
  xlsxV1,                  \* v1 output folder: <<file, part>> -> rows of the XLSX
  tempsV1,                 \* v1 output folder: temp Google Sheets
  resumeTriggersV1,        \* number of pending triggers of resume_current_job
  lines,                   \* parseLinesToTable: the data lines handed to it
  out,                     \* parseLinesToTable: the rows it returned
  raw,                     \* pass 1: the text of the line being read
  lineIdx,                 \* pass 1: its index i in lines
  cells0,                  \* pass 1: its trimmed fields
  norm,                    \* pass 1: what tryToNine_ returned for them
  badSink,                 \* parseLinesToTable: the bad-line sink argument
  badLines,                \* rows appended to the bad-lines workbook
  linePc,                  \* pass 1: position within the loop body
  fileLines,               \* readCsvLinesReliably_: the lines of the file read
  attempt,                 \* its loop counter (0 before the loop)
  delayMs,                 \* its back-off delay
  slept,                   \* the back-off waits it made, in order
  errMsg,                  \* the message of the exception it caught last
  readPc,                  \* its position
  readOut                  \* what it returned, and by which path

lineVars == <<raw, lineIdx, cells0, norm, badSink, badLines, linePc>>
parseVars == <<lines, out, lineVars>>
readVars == <<fileLines, attempt, delayMs, slept, errMsg, readPc, readOut>>
cfgVars == <<MAX_WRITE_ROWS_PER_RUN, AUTO_SPLIT_CHUNK_ROWS, WRITE_CHUNK_ROWS,
             SHEET_CELL_LIMIT, csvLines, runner, parseVars, readVars>>
v1Vars == <<jobV1, xlsxV1, tempsV1, resumeTriggersV1>>
v2Vars == <<queue, job, xlsx, temps, resumeTriggers, watchdogInstalled>>
vars == <<MAX_WRITE_ROWS_PER_RUN, AUTO_SPLIT_CHUNK_ROWS, WRITE_CHUNK_ROWS,
          SHEET_CELL_LIMIT, csvLines, queue, job, xlsx, temps, resumeTriggers,
          watchdogInstalled, log, inv, folder, runner, jobV1, xlsxV1, tempsV1,
          resumeTriggersV1, lines, out, raw, lineIdx, cells0, norm, badSink,
          badLines, linePc, fileLines, attempt, delayMs, slept, errMsg, readPc,
          readOut>>

\* The CSV files of the Drive folder, by id.
Files == {1, 2}
\* the .csv files a folder listing of run_all_v2 can hold
ListedFiles == 1..MaxListed
Slots == 1..NSlots

Min2(a, b) == IF a <= b THEN a ELSE b
Max2(a, b) == IF a >= b THEN a ELSE b

NoQueue == [none |-> TRUE]
NoJob   == [none |-> TRUE]
\* the content of a sheet row nothing was written to
Blank   == -1

\* ---------------------------------------------------------------- inputs
\* The header line of file f has f '|'-separated fields.
HeaderFieldsOf(f) == f

\* parseLinesToTable: table[0] is the header (raw header fields + 11 derived
\* names); every later non-empty line yields one row (tryToNine_ accepts
\* every line).  A row is represented by its index in the table.
TableOf(f) == [i \in 1..csvLines[f] |-> i - 1]
TableCols(f) == HeaderFieldsOf(f) + DerivedFields

\* A slice that takes `from` as the 1-based position of its first row.
SliceOneBased(t, from, to) == [i \in 1..(to - from) |-> t[from + i - 1]]

\* Array.prototype.slice(from, to) on a table held as a 1-based sequence.
Slice(t, from, to) ==
  LET hi == Min2(to, Len(t))
  IN  IF from >= hi THEN <<>> ELSE [i \in 1..(hi - from) |-> t[from + i]]

\* Range.setValues: rows written at sheet row `at`; untouched rows stay blank.
SetValues(sh, at, rows) ==
  IF Len(rows) = 0 THEN sh
  ELSE [i \in 1..Max2(Len(sh), at + Len(rows) - 1) |->
          IF i >= at /\ i < at + Len(rows) THEN rows[i - at + 1]
          ELSE IF i <= Len(sh) THEN sh[i] ELSE Blank]

\* ------------------------------------------------------------ file queue
\* parseYearMonthFromName_ on the folder's files: file 1 is 'november 2023',
\* file 2 is '2024-01', file 4 is 'january 2024', file 6 is '2023_12',
\* file 7 is 'December 2024'; any other file carries no date.
YmOf(f) ==
  CASE f = 1 -> <<2023, 11>>
    [] f = 2 -> <<2024, 1>>
    [] f = 4 -> <<2024, 1>>
    [] f = 6 -> <<2023, 12>>
    [] f = 7 -> <<2024, 12>>
    [] OTHER -> <<>>

\* A comparator that looks at the file names only.
NewerByName(a, b) == a > b

\* The comparator of items.sort in run_all_v2: TRUE when a sorts before b.
\* File names compare as their ids.
Newer(a, b) ==
  IF YmOf(a) # <<>> /\ YmOf(b) # <<>>
  THEN IF YmOf(a)[1] # YmOf(b)[1] THEN YmOf(a)[1] > YmOf(b)[1]
       ELSE IF YmOf(a)[2] # YmOf(b)[2] THEN YmOf(a)[2] > YmOf(b)[2]
       ELSE a > b
  ELSE IF YmOf(a) # <<>> THEN TRUE
  ELSE IF YmOf(b) # <<>> THEN FALSE
  ELSE a > b

\* The .csv files of the folder in the order items.sort leaves them.
SortedItems(listing) ==
  CHOOSE s \in [1..Cardinality(listing) -> listing] :
    \A i, j \in 1..Cardinality(listing) : i < j => Newer(s[i], s[j])

\* ------------------------------------------------------ output partitioner
\* processJobStreamingV2_ lines 1288-1296 (and processJobStreaming_ 473-480).
\* The cell cap without the Math.max(1, ...) clamp of lines 474 and 1289.
CellCapUnclamped(totalCols) ==
  LET rowsAllowed == SHEET_CELL_LIMIT \div totalCols
  IN  rowsAllowed - 1

DataRowsAllowedByCellCap(totalCols) ==
  LET rowsAllowed == SHEET_CELL_LIMIT \div totalCols
  IN  Max2(1, rowsAllowed - 1)

\* A part size that leaves remainingThisRun out of the Math.min.
PartDataRowsNoBudget(dataLeft, remainingThisRun, totalCols) ==
  Min2(dataLeft, Min2(AUTO_SPLIT_CHUNK_ROWS, DataRowsAllowedByCellCap(totalCols)))

PartDataRows(dataLeft, remainingThisRun, totalCols) ==
  LET dataRowsAllowedByPolicy == AUTO_SPLIT_CHUNK_ROWS
  IN  Min2(Min2(dataLeft, remainingThisRun),
           Min2(dataRowsAllowedByPolicy, DataRowsAllowedByCellCap(totalCols)))

\* The inner block-write loop of one part (lines 1318-1326).
RECURSIVE WriteBlocks(_, _, _, _, _)
WriteBlocks(sh, table, dataCursor, partDataRows, written) ==
  IF written < partDataRows
  THEN LET size == Min2(WRITE_CHUNK_ROWS, partDataRows - written)
           startIdx == 1 + dataCursor + written
           slice == Slice(table, startIdx, startIdx + size)
       IN  WriteBlocks(SetValues(sh, 2 + written, slice), table, dataCursor,
                       partDataRows, written + size)
  ELSE sh

\* Temp sheet of a v2 part: header row, then the blocks (lines 1313-1326).
PartSheetV2(table, dataCursor, partDataRows) ==
  WriteBlocks(SetValues(<<>>, 1, <<table[1]>>), table, dataCursor, partDataRows, 0)

\* Temp sheet of a v1 part: the blocks only, from sheet row 2 (lines 485-499).
PartSheetV1(table, dataCursor, partDataRows) ==
  WriteBlocks(<<>>, table, dataCursor, partDataRows, 0)

\* ------------------------------------------------------------- invocations
IdleInv == [pc |-> "idle", wrapper |-> "none", q |-> NoQueue, job |-> NoJob,
            remainingThisRun |-> 0, partDataRows |-> 0, sheet |-> <<>>,
            outcome |-> "none", startCursor |-> 0, iters |-> 0,
            files |-> <<>>, i |-> 0]

AllIdle == \A s \in Slots : inv[s].pc = "idle"
\* the slot a newly started handler runs in
FreeSlot(s) == /\ inv[s].pc = "idle"
               /\ \A r \in Slots : r < s => inv[r].pc # "idle"

TotalDataRows(j) == j.totalRows - 1
PartKey(j) == <<j.fileId, j.partIndex>>
\* An idempotent guard that takes every part for exported.
PartExistsAlways(j) == TRUE
\* An idempotent guard that finds no part exported.
PartExistsNever(j) == FALSE
PartExists(j) == PartKey(j) \in DOMAIN xlsx

\* job.dataCursor += partDataRows; job.partIndex += 1 (lines 1301-1303, 1332-1336)
AdvanceJob(j, partDataRows) ==
  [j EXCEPT !.dataCursor = @ + partDataRows, !.partIndex = @ + 1]

\* A scheduleResumeAt_ that creates no trigger.
ScheduleResumeKeeps(triggers, minutes) == triggers

\* scheduleResumeAt_(minutes, 'resume_all_v2_safe') when a trigger can be
\* created: every trigger of the handler is deleted, then one is created.
ScheduleResumeAt(triggers, minutes) == 1

\* scheduleResumeAt_ when both ScriptApp.newTrigger attempts throw: the old
\* triggers are already deleted and e2 is rethrown.
ScheduleResumeFails(triggers) == 0

Ev(phase, status) == <<phase, status>>

QueueUnfinished(q) == q # NoQueue /\ q.idx < Len(q.items)
\* q.items[q.idx] (idx is 0-based in the script)
CurrentItem(q) == q.items[q.idx + 1]

Set(s, r) == [inv EXCEPT ![s] = r]

\* The stores before any handler has run.
EmptyStores ==
  /\ queue = NoQueue
  /\ job = NoJob
  /\ xlsx = <<>>
  /\ temps = {}
  /\ resumeTriggers = 0
  /\ watchdogInstalled = FALSE
  /\ log = <<>>
  /\ inv = [s \in Slots |-> IdleInv]
  /\ jobV1 = NoJob
  /\ xlsxV1 = <<>>
  /\ tempsV1 = {}
  /\ resumeTriggersV1 = 0

NoNorm == [none |-> TRUE]
NoSink == 0   \* badSink is null

\* No line of pass 1 under observation.
NoLine ==
  /\ raw = <<>>
  /\ lineIdx = 0
  /\ cells0 = <<>>
  /\ norm = NoNorm
  /\ badSink = NoSink
  /\ badLines = <<>>
  /\ linePc = "none"

NoOut == [via |-> "none", lines |-> <<>>]

\* No call of readCsvLinesReliably_ under observation.
NoRead ==
  /\ fileLines = <<>>
  /\ attempt = 0
  /\ delayMs = 0
  /\ slept = <<>>
  /\ errMsg = ""
  /\ readPc = "none"
  /\ readOut = NoOut

\* No call of parseLinesToTable under observation.
NoParse ==
  /\ lines = <<>>
  /\ out = <<>>
  /\ NoLine

Init ==
  /\ MAX_WRITE_ROWS_PER_RUN \in 1..MaxBudget
  /\ AUTO_SPLIT_CHUNK_ROWS \in 1..MAX_WRITE_ROWS_PER_RUN
  /\ WRITE_CHUNK_ROWS = 1
  /\ SHEET_CELL_LIMIT \in
       {TableCols(Cardinality(Files)) * (MaxBudget + 2)} \cup
       (IF AUTO_SPLIT_CHUNK_ROWS = MaxBudget THEN {TableCols(1)} ELSE {})
  /\ \E n \in 0..MaxLines : csvLines = [f \in Files |-> IF f = 1 THEN n ELSE 2]
  /\ EmptyStores
  /\ folder \in {{1}, Files}
  /\ runner \in {"v1", "v2"}
  /\ NoParse
  /\ NoRead

\* ------------------------------------------------------------ run_all_v2
\* Lines 213-235: list, sort, store the queue with idx 0.
RunAllV2Build(s) ==
  /\ runner = "v2"
  /\ AllIdle /\ FreeSlot(s)
  /\ queue' = [idx |-> 0, items |-> SortedItems(folder)]
  /\ inv' = Set(s, [IdleInv EXCEPT !.pc = "run_all_v2_clear", !.wrapper = "direct"])
  /\ log' = <<>>
  /\ UNCHANGED <<cfgVars, v1Vars, job, xlsx, temps, resumeTriggers, watchdogInstalled,
                 folder>>

\* Lines 236-237: delete the stale job, call resume_all_v2().
RunAllV2Clear(s) ==
  /\ inv[s].pc = "run_all_v2_clear"
  /\ job' = NoJob
  /\ inv' = Set(s, [inv[s] EXCEPT !.pc = "resume_all_v2"])
  /\ log' = <<>>
  /\ UNCHANGED <<cfgVars, v1Vars, queue, xlsx, temps, resumeTriggers,
                 watchdogInstalled, folder>>

\* The scheduler fires the pending one-shot trigger of resume_all_v2_safe
\* (lines 1376-1379); the trigger is no longer pending once it has fired.
StartResumeSafe(s) ==
  /\ FreeSlot(s)
  /\ resumeTriggers > 0
  /\ resumeTriggers' = 0
  /\ inv' = Set(s, [IdleInv EXCEPT !.pc = "resume_all_v2", !.wrapper = "safe"])
  /\ log' = <<Ev("resume_tick", "ok")>>
  /\ UNCHANGED <<cfgVars, v1Vars, queue, job, xlsx, temps, watchdogInstalled, folder>>

\* The host runs one handler at a time: the trigger fires while none runs.
FireResume(s) == AllIdle /\ StartResumeSafe(s)

\* ----------------------------------------------------------- resume_all_v2
\* Lines 246-275: read the queue, load the job or create one for q.items[q.idx].
ResumeEntry(s) ==
  /\ inv[s].pc = "resume_all_v2"
  /\ IF queue = NoQueue
     THEN /\ inv' = Set(s, IdleInv)
          /\ log' = <<Ev("resume_tick", "ok")>>
          /\ UNCHANGED <<job, temps>>
     ELSE IF queue.idx >= Len(queue.items)
     THEN /\ inv' = Set(s, IdleInv)
          /\ log' = <<Ev("resume_tick", "ok")>>
          /\ UNCHANGED <<job, temps>>
     ELSE IF job = NoJob
     THEN LET cur == CurrentItem(queue)
              fresh == [fileId |-> cur, totalRows |-> 0, totalCols |-> 0,
                        dataCursor |-> 0, partIndex |-> 1]
          IN  /\ temps' = {t \in temps : t[1] # cur}
              /\ job' = fresh
              /\ inv' = Set(s, [inv[s] EXCEPT !.pc = "processJobStreamingV2",
                                              !.q = queue, !.job = fresh])
              /\ log' = <<Ev("resume_tick", "ok")>>
     ELSE /\ inv' = Set(s, [inv[s] EXCEPT !.pc = "processJobStreamingV2",
                                          !.q = queue, !.job = job])
          /\ log' = <<Ev("resume_tick", "ok")>>
          /\ UNCHANGED <<job, temps>>
  /\ UNCHANGED <<cfgVars, v1Vars, queue, xlsx, resumeTriggers, watchdogInstalled,
                 folder>>

\* ------------------------------------------------- processJobStreamingV2_
\* Totals taken from the parsed table at every invocation.
FixTotalsAlways(j, f) ==
  [j EXCEPT !.totalRows = Len(TableOf(f)), !.totalCols = TableCols(f)]

\* Lines 1281-1284 (v1: 466-469): the totals are taken from the parsed table
\* of file f while one of them is still 0.
FixTotals(j, f) ==
  IF j.totalRows = 0 \/ j.totalCols = 0
  THEN [j EXCEPT !.totalRows = Len(TableOf(f)), !.totalCols = TableCols(f)]
  ELSE j

\* Lines 1260-1292: read and parse the file, fix the totals, open the budget.
ProcessRead(s) ==
  /\ inv[s].pc = "processJobStreamingV2"
  /\ LET j == inv[s].job
         f == j.fileId
     IN  IF csvLines[f] = 0
         THEN /\ job' = NoJob
              /\ inv' = Set(s, [inv[s] EXCEPT !.pc = "after", !.outcome = "empty"])
              /\ log' = <<Ev("empty", "skip")>>
         ELSE LET j2 == FixTotals(j, f)
              IN  /\ inv' = Set(s, [inv[s] EXCEPT
                                      !.pc = "loop", !.job = j2,
                                      !.remainingThisRun = MAX_WRITE_ROWS_PER_RUN,
                                      !.startCursor = j2.dataCursor])
                  /\ log' = <<Ev("part_start", "ok")>>
                  /\ UNCHANGED job
  /\ UNCHANGED <<cfgVars, v1Vars, queue, xlsx, temps, resumeTriggers,
                 watchdogInstalled, folder>>

LoopCondition(j, remainingThisRun) ==
  j.dataCursor < TotalDataRows(j) /\ remainingThisRun > 0

NextPartRows(j, remainingThisRun) ==
  PartDataRows(TotalDataRows(j) - j.dataCursor, remainingThisRun, j.totalCols)

\* Lines 1294-1307: idempotent guard, the part's XLSX exists.
PartSkipExists(s) ==
  /\ inv[s].pc = "loop"
  /\ LoopCondition(inv[s].job, inv[s].remainingThisRun)
  /\ PartExists(inv[s].job)
  /\ LET p == NextPartRows(inv[s].job, inv[s].remainingThisRun)
         j2 == AdvanceJob(inv[s].job, p)
     IN  /\ job' = j2
         /\ inv' = Set(s, [inv[s] EXCEPT !.job = j2, !.partDataRows = p,
                                         !.remainingThisRun = @ - p,
                                         !.iters = @ + 1])
         /\ log' = <<Ev("part_skip_exists", "ok")>>
  /\ UNCHANGED <<cfgVars, v1Vars, queue, xlsx, temps, resumeTriggers,
                 watchdogInstalled, folder>>

\* Lines 1294-1326: the part does not exist; pre-clean, create the temp
\* sheet, write the header and the blocks.
PartWrite(s) ==
  /\ inv[s].pc = "loop"
  /\ LoopCondition(inv[s].job, inv[s].remainingThisRun)
  /\ ~PartExists(inv[s].job)
  /\ LET j == inv[s].job
         p == NextPartRows(j, inv[s].remainingThisRun)
     IN  /\ temps' = temps \cup {PartKey(j)}
         /\ inv' = Set(s, [inv[s] EXCEPT
                             !.pc = "export", !.partDataRows = p,
                             !.sheet = PartSheetV2(TableOf(j.fileId), j.dataCursor, p)])
  /\ log' = <<>>
  /\ UNCHANGED <<cfgVars, v1Vars, queue, job, xlsx, resumeTriggers, watchdogInstalled,
                 folder>>

\* Line 1328, exportSpreadsheetToXlsx_ (760-783): the XLSX replaces any file
\* of that name.
PartExport(s) ==
  /\ inv[s].pc = "export"
  /\ LET key == PartKey(inv[s].job)
     IN  xlsx' = [k \in DOMAIN xlsx \cup {key} |->
                    IF k = key THEN inv[s].sheet ELSE xlsx[k]]
  /\ inv' = Set(s, [inv[s] EXCEPT !.pc = "trash"])
  /\ log' = <<>>
  /\ UNCHANGED <<cfgVars, v1Vars, queue, job, temps, resumeTriggers, watchdogInstalled,
                 folder>>

\* Lines 1329-1330: trash the temp sheet (errors are swallowed).
PartTrashTemp(s) ==
  /\ inv[s].pc = "trash"
  /\ temps' = temps \ {PartKey(inv[s].job)}
  /\ inv' = Set(s, [inv[s] EXCEPT !.pc = "save", !.sheet = <<>>])
  /\ log' = <<>>
  /\ UNCHANGED <<cfgVars, v1Vars, queue, job, xlsx, resumeTriggers, watchdogInstalled,
                 folder>>

\* Lines 1332-1338: advance cursor, part index and budget, persist the job.
PartSave(s) ==
  /\ inv[s].pc = "save"
  /\ LET p == inv[s].partDataRows
         j2 == AdvanceJob(inv[s].job, p)
     IN  /\ job' = j2
         /\ inv' = Set(s, [inv[s] EXCEPT !.pc = "loop", !.job = j2,
                                         !.remainingThisRun = @ - p,
                                         !.iters = @ + 1])
  /\ log' = <<Ev("part_done", "ok")>>
  /\ UNCHANGED <<cfgVars, v1Vars, queue, xlsx, temps, resumeTriggers,
                 watchdogInstalled, folder>>

\* Lines 1341-1346: every data row is exported, delete the job.
FileComplete(s) ==
  /\ inv[s].pc = "loop"
  /\ ~LoopCondition(inv[s].job, inv[s].remainingThisRun)
  /\ inv[s].job.dataCursor >= TotalDataRows(inv[s].job)
  /\ job' = NoJob
  /\ inv' = Set(s, [inv[s] EXCEPT !.pc = "after", !.outcome = "complete"])
  /\ log' = <<Ev("file_complete", "ok")>>
  /\ UNCHANGED <<cfgVars, v1Vars, queue, xlsx, temps, resumeTriggers,
                 watchdogInstalled, folder>>

\* A pause that logs 'part_pause' and arms no trigger.
PartPauseWithoutTrigger(s) ==
  /\ inv[s].pc = "loop"
  /\ ~LoopCondition(inv[s].job, inv[s].remainingThisRun)
  /\ inv[s].job.dataCursor < TotalDataRows(inv[s].job)
  /\ inv' = Set(s, [inv[s] EXCEPT !.pc = "after", !.outcome = "paused"])
  /\ log' = <<Ev("part_pause", "pause")>>
  /\ UNCHANGED <<cfgVars, v1Vars, queue, job, xlsx, temps, resumeTriggers,
                 watchdogInstalled, folder>>

\* Lines 1348-1352: budget used up with rows left, schedule the next run.
PartPause(s) ==
  /\ inv[s].pc = "loop"
  /\ ~LoopCondition(inv[s].job, inv[s].remainingThisRun)
  /\ inv[s].job.dataCursor < TotalDataRows(inv[s].job)
  /\ resumeTriggers' = ScheduleResumeAt(resumeTriggers, BETWEEN_PARTS_DELAY_MIN)
  /\ inv' = Set(s, [inv[s] EXCEPT !.pc = "after", !.outcome = "paused"])
  /\ log' = <<Ev("trigger_set", BETWEEN_PARTS_DELAY_MIN), Ev("part_pause", "pause")>>
  /\ UNCHANGED <<cfgVars, v1Vars, queue, job, xlsx, temps, watchdogInstalled, folder>>

\* A resume_all_v2 that advances the queue without the test of line 280.
ResumeAfterAlwaysAdvances(s) ==
  /\ inv[s].pc = "after"
  /\ LET q2 == [inv[s].q EXCEPT !.idx = @ + 1]
     IN  /\ queue' = q2
         /\ IF q2.idx < Len(q2.items)
            THEN /\ resumeTriggers' =
                      ScheduleResumeAt(resumeTriggers, BETWEEN_FILES_DELAY_MIN)
                 /\ log' = <<Ev("trigger_set", BETWEEN_FILES_DELAY_MIN), Ev("file_done", "ok")>>
            ELSE /\ log' = <<Ev("all_done", "ok")>>
                 /\ UNCHANGED resumeTriggers
  /\ inv' = Set(s, IdleInv)
  /\ UNCHANGED <<cfgVars, v1Vars, job, xlsx, temps, watchdogInstalled, folder>>

\* resume_all_v2 lines 279-292: no job left, advance the queue.
ResumeAfter(s) ==
  /\ inv[s].pc = "after"
  /\ IF job = NoJob
     THEN LET q2 == [inv[s].q EXCEPT !.idx = @ + 1]
          IN  /\ queue' = q2
              /\ IF q2.idx < Len(q2.items)
                 THEN /\ resumeTriggers' =
                           ScheduleResumeAt(resumeTriggers, BETWEEN_FILES_DELAY_MIN)
                      /\ log' = <<Ev("trigger_set", BETWEEN_FILES_DELAY_MIN), Ev("file_done", "ok")>>
                 ELSE /\ log' = <<Ev("all_done", "ok")>>
                      /\ UNCHANGED resumeTriggers
     ELSE /\ log' = <<>>
          /\ UNCHANGED <<queue, resumeTriggers>>
  /\ inv' = Set(s, IdleInv)
  /\ UNCHANGED <<cfgVars, v1Vars, job, xlsx, temps, watchdogInstalled, folder>>

\* scheduleResumeAt_ throws at line 1349 or at line 284 (both newTrigger
\* attempts fail, lines 1134-1144): the handler's triggers are deleted
\* already, and at line 284 the advanced queue is stored already.  Under
\* resume_all_v2_safe the catch block re-arms in 3 minutes, which succeeds
\* or throws again.
ScheduleThrows(s) ==
  /\ \/ /\ inv[s].pc = "loop"
        /\ ~LoopCondition(inv[s].job, inv[s].remainingThisRun)
        /\ inv[s].job.dataCursor < TotalDataRows(inv[s].job)
        /\ UNCHANGED queue
     \/ /\ inv[s].pc = "after"
        /\ job = NoJob
        /\ inv[s].q.idx + 1 < Len(inv[s].q.items)
        /\ queue' = [inv[s].q EXCEPT !.idx = @ + 1]
  /\ IF inv[s].wrapper = "safe"
     THEN \/ /\ resumeTriggers' =
                  ScheduleResumeAt(ScheduleResumeFails(resumeTriggers), 3)
             /\ log' = <<Ev("trigger_error", "error"), Ev("resume_error", "error"),
                         Ev("trigger_set", 3)>>
          \/ /\ resumeTriggers' = ScheduleResumeFails(resumeTriggers)
             /\ log' = <<Ev("trigger_error", "error"), Ev("resume_error", "error"),
                         Ev("trigger_error", "error")>>
     ELSE /\ resumeTriggers' = ScheduleResumeFails(resumeTriggers)
          /\ log' = <<Ev("trigger_error", "error")>>
  /\ inv' = Set(s, IdleInv)
  /\ UNCHANGED <<cfgVars, v1Vars, job, xlsx, temps, watchdogInstalled, folder>>

\* ------------------------------------------------------------------ faults
Running(s) == inv[s].pc # "idle"

\* A collaborator call throws inside resume_all_v2; resume_all_v2_safe
\* catches it (lines 1380-1383) and re-arms itself in 3 minutes.
FaultCaught(s) ==
  /\ Running(s) /\ inv[s].wrapper = "safe"
  /\ resumeTriggers' = ScheduleResumeAt(resumeTriggers, 3)
  /\ inv' = Set(s, IdleInv)
  /\ log' = <<Ev("resume_error", "error"), Ev("trigger_set", 3)>>
  /\ UNCHANGED <<cfgVars, v1Vars, queue, job, xlsx, temps, watchdogInstalled, folder>>

\* As FaultCaught, but the re-arm in the catch block throws too
\* (scheduleResumeAt_ lines 1141-1144).
FaultRearmFails(s) ==
  /\ Running(s) /\ inv[s].wrapper = "safe"
  /\ resumeTriggers' = ScheduleResumeFails(resumeTriggers)
  /\ inv' = Set(s, IdleInv)
  /\ log' = <<Ev("resume_error", "error"), Ev("trigger_error", "error")>>
  /\ UNCHANGED <<cfgVars, v1Vars, queue, job, xlsx, temps, watchdogInstalled, folder>>

\* The execution ends without running any catch block: the exception
\* escapes run_all_v2 (no try), or the host kills the execution.
FaultKilled(s) ==
  /\ Running(s)
  /\ inv' = Set(s, IdleInv)
  /\ log' = <<>>
  /\ UNCHANGED <<cfgVars, v1Vars, v2Vars, folder>>

\* ---------------------------------------------------------------- operator
\* A further CSV export is dropped into the Drive folder.  Only run_all_v2
\* lists the folder, so the moment of an upload matters between runs only.
UploadCsv(f) ==
  /\ AllIdle
  /\ f \notin folder
  /\ folder' = folder \cup {f}
  /\ log' = <<>>
  /\ UNCHANGED <<cfgVars, v1Vars, queue, job, xlsx, temps, resumeTriggers,
                 watchdogInstalled, inv>>

\* ---------------------------------------------------------------- watchdog
\* install_watchdog_v2 (1394-1404).
InstallWatchdog ==
  /\ runner = "v2"
  /\ AllIdle
  /\ ~watchdogInstalled
  /\ watchdogInstalled' = TRUE
  /\ log' = <<Ev("watchdog_installed", "ok")>>
  /\ UNCHANGED <<cfgVars, v1Vars, queue, job, xlsx, temps, resumeTriggers, inv, folder>>

\* A watchdog_v2 without the hasResume test of lines 1424-1431.
WatchdogRunAlwaysArms ==
  /\ watchdogInstalled
  /\ IF ~QueueUnfinished(queue)
     THEN /\ log' = <<Ev("watchdog_ok", "idle")>>
          /\ UNCHANGED resumeTriggers
     ELSE /\ resumeTriggers' = ScheduleResumeAt(resumeTriggers, 1)
          /\ log' = <<Ev("trigger_set", 1), Ev("watchdog_rescheduled", "ok")>>
  /\ UNCHANGED <<cfgVars, v1Vars, queue, job, xlsx, temps, watchdogInstalled, inv,
                 folder>>

\* A watchdog_v2 that drops the job record it loaded whenever it re-arms.
WatchdogRunDroppingJob ==
  /\ watchdogInstalled
  /\ IF ~QueueUnfinished(queue)
     THEN /\ log' = <<Ev("watchdog_ok", "idle")>>
          /\ UNCHANGED <<resumeTriggers, job>>
     ELSE IF resumeTriggers = 0
     THEN /\ resumeTriggers' = ScheduleResumeAt(resumeTriggers, 1)
          /\ job' = NoJob
          /\ log' = <<Ev("trigger_set", 1), Ev("watchdog_rescheduled", "ok")>>
     ELSE /\ log' = <<Ev("watchdog_ok", "ok")>>
          /\ UNCHANGED <<resumeTriggers, job>>
  /\ UNCHANGED <<cfgVars, v1Vars, queue, xlsx, temps, watchdogInstalled, inv,
                 folder>>

\* watchdog_v2 (1411-1440), trigger creation succeeding.
WatchdogRun ==
  /\ watchdogInstalled
  /\ IF ~QueueUnfinished(queue)
     THEN /\ log' = <<Ev("watchdog_ok", "idle")>>
          /\ UNCHANGED resumeTriggers
     ELSE IF resumeTriggers = 0
     THEN /\ resumeTriggers' = ScheduleResumeAt(resumeTriggers, 1)
          /\ log' = <<Ev("trigger_set", 1), Ev("watchdog_rescheduled", "ok")>>
     ELSE /\ log' = <<Ev("watchdog_ok", "ok")>>
          /\ UNCHANGED resumeTriggers
  /\ UNCHANGED <<cfgVars, v1Vars, queue, job, xlsx, temps, watchdogInstalled, inv,
                 folder>>

\* watchdog_v2 when scheduleResumeAt_ throws: caught at line 1437.
WatchdogArmFailsRun ==
  /\ watchdogInstalled
  /\ QueueUnfinished(queue) /\ resumeTriggers = 0
  /\ resumeTriggers' = ScheduleResumeFails(resumeTriggers)
  /\ log' = <<Ev("trigger_error", "error"), Ev("watchdog_error", "error")>>
  /\ UNCHANGED <<cfgVars, v1Vars, queue, job, xlsx, temps, watchdogInstalled, inv,
                 folder>>

\* The periodic trigger fires watchdog_v2 while no other handler runs.
Watchdog == AllIdle /\ WatchdogRun
WatchdogArmFails == AllIdle /\ WatchdogArmFailsRun

\* -------------------------------------------------------------- v1 pipeline
\* The 'YYYY-MM' key run_range infers from a file name (parseYM, ymKey), as
\* the number YYYYMM.
YmKey(f) == YmOf(f)[1] * 100 + YmOf(f)[2]
RangeKeys == {YmKey(f) : f \in Files}

\* files.sort of run_range (line 397): ascending by key.
SortedByKey(fs) ==
  CHOOSE q \in [1..Cardinality(fs) -> fs] :
    \A a, b \in 1..Cardinality(fs) : a < b => YmKey(q[a]) < YmKey(q[b])

\* run_range lines 365-399: the .csv files of the folder whose key lies in
\* [fromYMonth, toYMonth], ascending.
RunRange(s, fromYMonth, toYMonth) ==
  /\ runner = "v1"
  /\ AllIdle /\ FreeSlot(s)
  /\ LET files == {f \in folder : YmOf(f) # <<>> /\ ~(YmKey(f) < fromYMonth)
                                   /\ ~(YmKey(f) > toYMonth)}
     IN  inv' = Set(s, [IdleInv EXCEPT !.pc = "run_range", !.wrapper = "direct",
                                       !.files = SortedByKey(files), !.i = 1])
  /\ log' = <<>>
  /\ UNCHANGED <<cfgVars, v1Vars, v2Vars, folder>>

\* run_range lines 401-426: next file of the pass; keep the persisted job if
\* it is this file's, else start a fresh one over it.
RunRangeFile(s) ==
  /\ inv[s].pc = "run_range"
  /\ IF inv[s].i > Len(inv[s].files)
     THEN /\ inv' = Set(s, IdleInv)
          /\ UNCHANGED <<jobV1, tempsV1>>
     ELSE LET f == inv[s].files[inv[s].i]
              fresh == [fileId |-> f, totalRows |-> 0, totalCols |-> 0,
                        dataCursor |-> 0, partIndex |-> 1]
          IN  IF jobV1 = NoJob \/ jobV1.fileId # f
              THEN /\ tempsV1' = {t \in tempsV1 : t[1] # f}
                   /\ jobV1' = fresh
                   /\ inv' = Set(s, [inv[s] EXCEPT !.pc = "processJobStreaming",
                                                   !.job = fresh])
              ELSE /\ inv' = Set(s, [inv[s] EXCEPT !.pc = "processJobStreaming",
                                                   !.job = jobV1])
                   /\ UNCHANGED <<jobV1, tempsV1>>
  /\ log' = <<>>
  /\ UNCHANGED <<cfgVars, v2Vars, xlsxV1, resumeTriggersV1, folder>>

\* resume_current_job (lines 181-186), fired by its trigger or run by hand.
ResumeCurrentJob(s) ==
  /\ runner = "v1"
  /\ AllIdle /\ FreeSlot(s)
  /\ \/ resumeTriggersV1 > 0 /\ resumeTriggersV1' = 0
     \/ resumeTriggersV1 = 0 /\ UNCHANGED resumeTriggersV1
  /\ IF jobV1 = NoJob
     THEN inv' = inv
     ELSE inv' = Set(s, [IdleInv EXCEPT !.pc = "processJobStreaming",
                                       !.wrapper = "direct", !.job = jobV1])
  /\ log' = <<>>
  /\ UNCHANGED <<cfgVars, v2Vars, jobV1, xlsxV1, tempsV1, folder>>

\* processJobStreaming_ lines 453-476.
ProcessReadV1(s) ==
  /\ inv[s].pc = "processJobStreaming"
  /\ LET j == inv[s].job
         f == j.fileId
     IN  IF csvLines[f] = 0
         THEN /\ jobV1' = NoJob
              /\ inv' = Set(s, [inv[s] EXCEPT !.pc = "after_v1", !.outcome = "empty"])
         ELSE LET j2 == FixTotals(j, f)
              IN  /\ inv' = Set(s, [inv[s] EXCEPT
                                      !.pc = "loop_v1", !.job = j2,
                                      !.remainingThisRun = MAX_WRITE_ROWS_PER_RUN,
                                      !.startCursor = j2.dataCursor])
                  /\ UNCHANGED jobV1
  /\ log' = <<>>
  /\ UNCHANGED <<cfgVars, v2Vars, xlsxV1, tempsV1, resumeTriggersV1, folder>>

\* Lines 478-499: pre-clean, create the temp sheet, write the blocks.
PartWriteV1(s) ==
  /\ inv[s].pc = "loop_v1"
  /\ LoopCondition(inv[s].job, inv[s].remainingThisRun)
  /\ LET j == inv[s].job
         p == NextPartRows(j, inv[s].remainingThisRun)
     IN  /\ tempsV1' = tempsV1 \cup {PartKey(j)}
         /\ inv' = Set(s, [inv[s] EXCEPT
                             !.pc = "export_v1", !.partDataRows = p,
                             !.sheet = PartSheetV1(TableOf(j.fileId), j.dataCursor, p)])
  /\ log' = <<>>
  /\ UNCHANGED <<cfgVars, v2Vars, jobV1, xlsxV1, resumeTriggersV1, folder>>

\* Line 501, exportSpreadsheetToXlsx_.
PartExportV1(s) ==
  /\ inv[s].pc = "export_v1"
  /\ LET key == PartKey(inv[s].job)
     IN  xlsxV1' = [k \in DOMAIN xlsxV1 \cup {key} |->
                      IF k = key THEN inv[s].sheet ELSE xlsxV1[k]]
  /\ inv' = Set(s, [inv[s] EXCEPT !.pc = "trash_v1"])
  /\ log' = <<>>
  /\ UNCHANGED <<cfgVars, v2Vars, jobV1, tempsV1, resumeTriggersV1, folder>>

\* Lines 504-505: trash the temp sheet.
PartTrashTempV1(s) ==
  /\ inv[s].pc = "trash_v1"
  /\ tempsV1' = tempsV1 \ {PartKey(inv[s].job)}
  /\ inv' = Set(s, [inv[s] EXCEPT !.pc = "save_v1", !.sheet = <<>>])
  /\ log' = <<>>
  /\ UNCHANGED <<cfgVars, v2Vars, jobV1, xlsxV1, resumeTriggersV1, folder>>

\* Lines 508-511: advance cursor, part index and budget, persist the job.
PartSaveV1(s) ==
  /\ inv[s].pc = "save_v1"
  /\ LET p == inv[s].partDataRows
         j2 == AdvanceJob(inv[s].job, p)
     IN  /\ jobV1' = j2
         /\ inv' = Set(s, [inv[s] EXCEPT !.pc = "loop_v1", !.job = j2,
                                         !.remainingThisRun = @ - p,
                                         !.iters = @ + 1])
  /\ log' = <<>>
  /\ UNCHANGED <<cfgVars, v2Vars, xlsxV1, tempsV1, resumeTriggersV1, folder>>

\* Lines 514-519: every data row is exported, delete the job.
FileCompleteV1(s) ==
  /\ inv[s].pc = "loop_v1"
  /\ ~LoopCondition(inv[s].job, inv[s].remainingThisRun)
  /\ inv[s].job.dataCursor >= TotalDataRows(inv[s].job)
  /\ jobV1' = NoJob
  /\ inv' = Set(s, [inv[s] EXCEPT !.pc = "after_v1", !.outcome = "complete"])
  /\ log' = <<>>
  /\ UNCHANGED <<cfgVars, v2Vars, xlsxV1, tempsV1, resumeTriggersV1, folder>>

\* Lines 521-523 with scheduleResume_ (1093-1102), ENABLE_AUTORETRY = true.
PartPauseV1(s) ==
  /\ inv[s].pc = "loop_v1"
  /\ ~LoopCondition(inv[s].job, inv[s].remainingThisRun)
  /\ inv[s].job.dataCursor < TotalDataRows(inv[s].job)
  /\ resumeTriggersV1' = 1
  /\ inv' = Set(s, [inv[s] EXCEPT !.pc = "after_v1", !.outcome = "paused"])
  /\ log' = <<>>
  /\ UNCHANGED <<cfgVars, v2Vars, jobV1, xlsxV1, tempsV1, folder>>

\* Back in the caller: resume_current_job returns; run_range (lines 430-434)
\* stops the pass if a job is left, else goes on to the next file.
AfterV1(s) ==
  /\ inv[s].pc = "after_v1"
  /\ IF inv[s].i = 0 \/ jobV1 # NoJob
     THEN inv' = Set(s, IdleInv)
     ELSE inv' = Set(s, [IdleInv EXCEPT !.pc = "run_range", !.wrapper = "direct",
                                       !.files = inv[s].files,
                                       !.i = inv[s].i + 1])
  /\ log' = <<>>
  /\ UNCHANGED <<cfgVars, v1Vars, v2Vars, folder>>

\* ---------------------------------------------------------- next-state
StepV2(s) ==
  \/ ResumeEntry(s) \/ ProcessRead(s) \/ PartSkipExists(s) \/ PartWrite(s)
  \/ PartExport(s) \/ PartTrashTemp(s) \/ PartSave(s) \/ FileComplete(s)
  \/ PartPause(s) \/ ResumeAfter(s) \/ RunAllV2Clear(s) \/ ScheduleThrows(s)

StepV1(s) ==
  \/ RunRangeFile(s) \/ ProcessReadV1(s) \/ PartWriteV1(s) \/ PartExportV1(s)
  \/ PartTrashTempV1(s) \/ PartSaveV1(s) \/ FileCompleteV1(s)
  \/ PartPauseV1(s) \/ AfterV1(s)

Fault(s) == FaultCaught(s) \/ FaultRearmFails(s) \/ FaultKilled(s)

\* The v2 handlers, the operator and the faults, one handler at a time.
NextV2 ==
  \/ \E s \in Slots : RunAllV2Build(s) \/ FireResume(s) \/ StepV2(s) \/ Fault(s)
  \/ \E f \in Files : UploadCsv(f)
  \/ InstallWatchdog
  \/ Watchdog
  \/ WatchdogArmFails

Next ==
  \/ NextV2
  \/ \E s \in Slots : StepV1(s) \/ ResumeCurrentJob(s)
  \/ \E s \in Slots : \E fromYMonth, toYMonth \in RangeKeys :
        RunRange(s, fromYMonth, toYMonth)

Spec == Init /\ [][Next]_vars

\* ----------------------------------------------------- unserialised host
\* Apps Script starts a handler when its trigger is due, whether or not
\* another execution is still running; the script takes no lock.
FireResumeDuringRun(s) == ~AllIdle /\ StartResumeSafe(s)
WatchdogDuringRun == ~AllIdle /\ WatchdogRun

\* One small configuration of Init: a budget of one row, file 1 with two
\* data rows.
InitConc ==
  /\ Init
  /\ runner = "v2"
  /\ MAX_WRITE_ROWS_PER_RUN = 1
  /\ csvLines[1] = 3
  /\ folder = {1}

NextConc ==
  \/ NextV2
  \/ \E s \in Slots : FireResumeDuringRun(s)
  \/ WatchdogDuringRun

SpecConc == InitConc /\ [][NextConc]_vars

\* ------------------------------------------------------------ fair host
\* A started handler runs on unless a fault ends it, every armed trigger
\* fires, and the installed watchdog keeps firing.
HandlerRuns ==
  \E s \in Slots :
    \/ ResumeEntry(s) \/ ProcessRead(s) \/ PartSkipExists(s) \/ PartWrite(s)
    \/ PartExport(s) \/ PartTrashTemp(s) \/ PartSave(s) \/ FileComplete(s)
    \/ PartPause(s) \/ ResumeAfter(s) \/ RunAllV2Clear(s)

FaultStep ==
  \/ \E s \in Slots : Fault(s) \/ ScheduleThrows(s)
  \/ WatchdogArmFails

SpecLive ==
  /\ InitConc /\ [][NextV2]_vars
  /\ WF_vars(HandlerRuns)
  /\ WF_vars(\E s \in Slots : FireResume(s))
  /\ WF_vars(Watchdog)

\* ================================================================== claims
\* table.slice(1): the data rows of file f.
DataRowsOf(f) == Slice(TableOf(f), 1, Len(TableOf(f)))

\* The rows below the header row of the v2 parts 1..n of file f, concatenated.
RECURSIVE PartsRows(_, _)
PartsRows(f, n) ==
  IF n = 0 THEN <<>>
  ELSE PartsRows(f, n - 1) \o
       (IF <<f, n>> \in DOMAIN xlsx THEN Tail(xlsx[<<f, n>>]) ELSE <<Blank>>)

\* A v2 invocation is back in resume_all_v2 from processJobStreamingV2_ on a
\* file that has lines.
ReturnedV2(s) == inv[s].pc = "after" /\ csvLines[inv[s].job.fileId] > 0

\* C1: whatever invocations, faults and re-invocations came before, and for
\* every positive budget and chunk size, when processJobStreamingV2_ reports a
\* file complete the parts 1..n written for it hold every data row of the
\* file exactly once, in input order.
C1_CompleteHoldsEveryRowOnce ==
  \A s \in Slots :
    (ReturnedV2(s) /\ inv[s].outcome = "complete")
      => PartsRows(inv[s].job.fileId, inv[s].job.partIndex - 1)
           = DataRowsOf(inv[s].job.fileId)

\* The step of the idempotent guard: one more part handled without leaving
\* the head of the part loop.
SkipStep(s) ==
  /\ inv[s].pc = "loop" /\ inv'[s].pc = "loop"
  /\ inv'[s].iters = inv[s].iters + 1

\* C2: an idempotent skip creates, rewrites and deletes no artifact, and it
\* advances the cursor by exactly the number of data rows the existing part
\* holds and the part index by 1, whatever budget remains.
C2_SkipAdvancesByExistingPart ==
  [][\A s \in Slots : SkipStep(s) =>
       /\ xlsx' = xlsx /\ temps' = temps
       /\ job'.dataCursor =
            inv[s].job.dataCursor + (Len(xlsx[PartKey(inv[s].job)]) - 1)
       /\ job'.partIndex = inv[s].job.partIndex + 1]_vars

WatchdogStalled == QueueUnfinished(queue) /\ resumeTriggers = 0

\* C5 as stated: watchdog_v2 arms a resume trigger (delay 1 minute) and logs
\* 'watchdog_rescheduled' exactly when the queue exists with idx < length and
\* no resume trigger is pending; otherwise it arms nothing and logs
\* 'watchdog_ok', with status 'idle' when the queue is absent or finished.
C5_WatchdogArmsIffStalled ==
  [][(Watchdog \/ WatchdogArmFails) =>
       IF WatchdogStalled
       THEN /\ resumeTriggers' = 1
            /\ log' = <<Ev("trigger_set", 1), Ev("watchdog_rescheduled", "ok")>>
       ELSE /\ resumeTriggers' = resumeTriggers
            /\ log' = <<Ev("watchdog_ok",
                           IF QueueUnfinished(queue) THEN "ok" ELSE "idle")>>]_vars

\* C5 amended: as C5, except that when the queue is stalled and the trigger
\* cannot be created, watchdog_v2 arms nothing and logs 'trigger_error' and
\* 'watchdog_error' instead of 'watchdog_rescheduled'.
C5_WatchdogArmsIffStalledOrFails ==
  [][(Watchdog \/ WatchdogArmFails) =>
       IF WatchdogStalled
       THEN \/ /\ resumeTriggers' = 1
               /\ log' = <<Ev("trigger_set", 1), Ev("watchdog_rescheduled", "ok")>>
            \/ /\ resumeTriggers' = 0
               /\ log' = <<Ev("trigger_error", "error"),
                           Ev("watchdog_error", "error")>>
       ELSE /\ resumeTriggers' = resumeTriggers
            /\ log' = <<Ev("watchdog_ok",
                           IF QueueUnfinished(queue) THEN "ok" ELSE "idle")>>]_vars

C5_Witness ==
  /\ QueueUnfinished(queue) /\ resumeTriggers = 0
  /\ log = <<Ev("trigger_error", "error"), Ev("watchdog_error", "error")>>

\* C6: when a fault-free processJobStreamingV2_ returns on a non-empty file,
\* either the file is complete (job record deleted, cursor >= total data
\* rows) or it is paused (job record persisted with cursor < total, the
\* remaining budget is 0 and a resume trigger is armed).
C6_CompleteOrPaused ==
  \A s \in Slots : ReturnedV2(s) =>
    LET j == inv[s].job
    IN  \/ /\ job = NoJob
           /\ j.dataCursor >= TotalDataRows(j)
        \/ /\ job = j
           /\ j.dataCursor < TotalDataRows(j)
           /\ inv[s].remainingThisRun = 0
           /\ resumeTriggers > 0

C6_Witness ==
  \E s \in Slots :
    /\ ReturnedV2(s) /\ job = inv[s].job
    /\ inv[s].job.dataCursor < TotalDataRows(inv[s].job)
    /\ inv[s].job.partIndex > 1

\* C7: a fault-free invocation that resumes at cursor c of a file with T data
\* rows advances the cursor by exactly min(MAX_WRITE_ROWS_PER_RUN, T - c),
\* skipped parts included, and ends paused if c + MAX_WRITE_ROWS_PER_RUN < T
\* and complete otherwise.
C7_AdvanceIsBudgetOrRest ==
  \A s \in Slots : ReturnedV2(s) =>
    LET j == inv[s].job
        c == inv[s].startCursor
        T == TotalDataRows(j)
    IN  /\ j.dataCursor - c = Min2(MAX_WRITE_ROWS_PER_RUN, T - c)
        /\ IF c + MAX_WRITE_ROWS_PER_RUN < T
           THEN inv[s].outcome = "paused" /\ job # NoJob
           ELSE inv[s].outcome = "complete" /\ job = NoJob

C7_Witness ==
  \E s \in Slots :
    /\ ReturnedV2(s)
    /\ inv[s].startCursor > 0
    /\ inv[s].job.dataCursor = inv[s].startCursor + MAX_WRITE_ROWS_PER_RUN
    /\ inv[s].outcome = "paused"
    /\ inv[s].iters > 1

\* C8: every part loop, v1 and v2 alike, terminates: each iteration handles a
\* part of at least 1 row, strictly increases the cursor and strictly
\* decreases the remaining budget, so an invocation makes at most
\* MAX_WRITE_ROWS_PER_RUN iterations.
C8_PartLoopTerminates ==
  [][\A s \in Slots : inv'[s].iters = inv[s].iters + 1 =>
       /\ inv'[s].partDataRows >= 1
       /\ inv'[s].job.dataCursor > inv[s].job.dataCursor
       /\ inv'[s].remainingThisRun < inv[s].remainingThisRun
       /\ inv'[s].remainingThisRun >= 0
       /\ inv'[s].iters <= MAX_WRITE_ROWS_PER_RUN]_vars

C8_Witness ==
  \E s \in Slots :
    /\ inv[s].pc = "loop_v1"
    /\ inv[s].iters = MAX_WRITE_ROWS_PER_RUN /\ inv[s].iters > 1
    /\ SHEET_CELL_LIMIT \div inv[s].job.totalCols < 2

\* C9: a fault while part k is written or exported ends the invocation with
\* the persisted job still holding the cursor and part index from before
\* part k; the persisted cursor moves only once the XLSX of the part exists
\* (exported by this invocation, or found by the idempotent guard).
C9_CursorMovesAfterExport ==
  [][\A s \in Slots :
       /\ (inv[s].pc \in {"export", "trash", "save"} /\ inv'[s].pc = "idle")
            => /\ job' = job /\ job # NoJob
               /\ job.dataCursor = inv[s].job.dataCursor
               /\ job.partIndex = inv[s].job.partIndex
       /\ (job # NoJob /\ job' # NoJob /\ job'.dataCursor # job.dataCursor)
            => /\ <<job.fileId, job.partIndex>> \in DOMAIN xlsx
               /\ job'.fileId = job.fileId
               /\ job'.dataCursor > job.dataCursor]_vars

C9_Witness ==
  /\ AllIdle /\ job # NoJob
  /\ PartKey(job) \in DOMAIN xlsx /\ PartKey(job) \in temps
  /\ log # <<>> /\ log[1] = Ev("resume_error", "error")

\* C10: resume_all_v2 advances the queue index only when no job record is
\* persisted after processing, and then by exactly 1; once the queue is
\* built its index never decreases and never exceeds items.length, and its
\* items never change.
C10_QueueAdvancesByOne ==
  [][queue' # queue =>
       \/ /\ \E s \in Slots : inv[s].pc = "idle" /\ inv'[s].pc = "run_all_v2_clear"
          /\ queue'.idx = 0
       \/ /\ queue # NoQueue /\ queue' # NoQueue
          /\ \E s \in Slots : inv[s].pc = "after"
          /\ job = NoJob /\ job' = NoJob
          /\ queue'.items = queue.items
          /\ queue'.idx = queue.idx + 1
          /\ queue'.idx <= Len(queue.items)]_vars

C10_Witness ==
  /\ queue # NoQueue /\ Len(queue.items) = 2 /\ queue.idx = 2
  /\ log = <<Ev("all_done", "ok")>>

\* The slots in which resume_all_v2 (through resume_all_v2_safe or
\* run_all_v2) is executing.
InResume == {s \in Slots : inv[s].pc \notin {"idle", "run_all_v2_clear"}}

\* C3: at no time are two invocations of resume_all_v2 / resume_all_v2_safe
\* active, in every interleaving of trigger firings and watchdog runs,
\* including a watchdog_v2 that runs while a resume invocation is executing
\* and no resume trigger is pending.
C3_OneResumeAtATime == Cardinality(InResume) <= 1

\* Every data row of file f is in some part of the output folder.
FileExported(f) ==
  \A r \in 1..(csvLines[f] - 1) :
    \E k \in DOMAIN xlsx : k[1] = f /\ \E i \in 2..Len(xlsx[k]) : xlsx[k][i] = r

QueueDone ==
  /\ queue # NoQueue /\ queue.idx = Len(queue.items)
  /\ \A i \in 1..Len(queue.items) : FileExported(queue.items[i])

\* C4: once run_all_v2 has built the queue, if every armed trigger fires,
\* the watchdog keeps firing and faults occur only finitely often, then every
\* file of the queue is eventually complete and idx eventually equals
\* items.length.
C4_QueueEventuallyDone ==
  (/\ <>[][~FaultStep /\ ~(\E s \in Slots : RunAllV2Build(s))]_vars
   /\ <>[](watchdogInstalled /\ queue # NoQueue))
    => <>[]QueueDone

\* ------------------------------------------------ run_all_v2: queue order
\* One pipeline configuration, for the specifications that look at a single
\* function of the script.
OneConfig ==
  /\ MAX_WRITE_ROWS_PER_RUN = 1
  /\ AUTO_SPLIT_CHUNK_ROWS = 1
  /\ WRITE_CHUNK_ROWS = 1
  /\ SHEET_CELL_LIMIT = TableCols(Cardinality(Files)) * (MaxBudget + 2)
  /\ csvLines = [f \in Files |-> 2]
  /\ runner = "v2"
  /\ EmptyStores

\* run_all_v2 lists a folder holding any of the listed files.
InitSort ==
  /\ OneConfig
  /\ folder \in SUBSET ListedFiles
  /\ NoParse
  /\ NoRead

\* run_all_v2 up to the setProperty of the sorted queue (lines 213-235).
NextSort == \E s \in Slots : RunAllV2Build(s)

SpecSort == InitSort /\ [][NextSort]_vars

Tagged(f) == YmOf(f) # <<>>

\* Entry a belongs before entry b in a newest-first queue.
BelongsBefore(a, b) ==
  \/ Tagged(a) /\ ~Tagged(b)
  \/ /\ Tagged(a) /\ Tagged(b)
     /\ \/ YmOf(a)[1] > YmOf(b)[1]
        \/ YmOf(a)[1] = YmOf(b)[1] /\ YmOf(a)[2] > YmOf(b)[2]
        \/ YmOf(a) = YmOf(b) /\ a > b
  \/ ~Tagged(a) /\ ~Tagged(b) /\ a > b

\* C11: the queue run_all_v2 stores holds every listed file once, entries
\* with a (year, month) tag before all entries without one, tagged entries
\* by descending year, then descending month, and ties (same tag, or both
\* untagged) by descending file name.
C11_QueueNewestFirst ==
  queue # NoQueue =>
    /\ Len(queue.items) = Cardinality(folder)
    /\ {queue.items[i] : i \in 1..Len(queue.items)} = folder
    /\ \A i, j \in 1..Len(queue.items) :
         i < j => BelongsBefore(queue.items[i], queue.items[j])

\* Files tagged 2023-11 and 2024-01 and one untagged file are queued as
\* 2024-01, 2023-11, untagged.
C11_Witness ==
  /\ queue # NoQueue
  /\ folder = {1, 2, 3}
  /\ queue.items = <<2, 1, 3>>

\* ------------------------------------------------- part order within a file
\* A step of the part loop that handles one part: the idempotent guard skips
\* it, or its export is followed by saveJobV2_.
PartHandled(s) ==
  /\ inv[s].pc \in {"loop", "save"}
  /\ inv'[s].pc = "loop"
  /\ inv'[s].iters = inv[s].iters + 1

\* The last data row an exported part holds.
LastRowOf(key) == xlsx[key][Len(xlsx[key])]

\* C12: within one file the parts are written or skipped in increasing index
\* order from 1, the part index growing by exactly 1 per part handled, and
\* part k+1 starts at the data row right after the last row of part k.
C12_PartsInOrderAndContiguous ==
  [][\A s \in Slots : PartHandled(s) =>
       LET j == inv[s].job
       IN  /\ inv'[s].job.partIndex = j.partIndex + 1
           /\ job'.partIndex = j.partIndex + 1
           /\ inv'[s].job.dataCursor >= j.dataCursor
           /\ j.partIndex = 1 => j.dataCursor = 0
           /\ j.partIndex > 1 =>
                /\ <<j.fileId, j.partIndex - 1>> \in DOMAIN xlsx
                /\ j.dataCursor = LastRowOf(<<j.fileId, j.partIndex - 1>>)]_vars

\* ------------------------------------- the partitioner, every configuration
\* One file exported by run_all_v2 and its resumes, no execution cut short, under every
\* combination of row budget, chunk size, block size and cell limit.
CellLimits == {(TableCols(1) * c) \div 2 : c \in 1..(2 * (MaxBudget + 2))}

InitPart ==
  /\ MAX_WRITE_ROWS_PER_RUN \in 1..MaxBudget
  /\ AUTO_SPLIT_CHUNK_ROWS \in 1..MaxBudget
  /\ WRITE_CHUNK_ROWS \in 1..MaxBudget
  /\ SHEET_CELL_LIMIT \in CellLimits
  /\ \E n \in 0..MaxLines : csvLines = [f \in Files |-> IF f = 1 THEN n ELSE 2]
  /\ EmptyStores
  /\ folder = {1}
  /\ runner = "v2"
  /\ NoParse
  /\ NoRead

NextPart ==
  \E s \in Slots : RunAllV2Build(s) \/ FireResume(s) \/ StepV2(s)

SpecPart == InitPart /\ [][NextPart]_vars

\* The step that fixes the size of the next part: the idempotent guard
\* skips it or the temp sheet is written.
PartSized(s) ==
  /\ inv[s].pc = "loop"
  /\ inv'[s].pc \in {"loop", "export"}
  /\ inv'[s] # inv[s]

\* C13: the size of the next part is the minimum of the data rows left,
\* the remaining row budget, AUTO_SPLIT_CHUNK_ROWS and the cell cap
\* floor(SHEET_CELL_LIMIT / totalCols) - 1.
C13_PartSizeIsMinOfFour ==
  [][\A s \in Slots : PartSized(s) =>
       LET j == inv[s].job
       IN  inv'[s].partDataRows =
             Min2(Min2(TotalDataRows(j) - j.dataCursor, inv[s].remainingThisRun),
                  Min2(AUTO_SPLIT_CHUNK_ROWS,
                       (SHEET_CELL_LIMIT \div j.totalCols) - 1))]_vars

\* C14: every exported part, header row included, fits in the sink:
\* (partDataRows + 1) * totalCols <= SHEET_CELL_LIMIT.
C14_PartFitsInSink ==
  \A key \in DOMAIN xlsx : Len(xlsx[key]) * TableCols(key[1]) <= SHEET_CELL_LIMIT

\* The rows a part of p data rows starting after data row c has to hold.
SelfContainedPart(f, c, p) ==
  [i \in 1..(p + 1) |-> IF i = 1 THEN TableOf(f)[1] ELSE TableOf(f)[c + i]]

\* C15: a part the v2 processor exports holds the header row followed by
\* exactly the partDataRows table rows dataCursor+1 .. dataCursor+partDataRows
\* in order; the blocks of at most WRITE_CHUNK_ROWS rows leave no gap and no
\* overlap.
C15_PartIsHeaderPlusContiguousRows ==
  \A s \in Slots :
    LET j == inv[s].job
        want == SelfContainedPart(j.fileId, j.dataCursor, inv[s].partDataRows)
    IN  /\ inv[s].pc = "export" => inv[s].sheet = want
        /\ inv[s].pc = "trash" => xlsx[PartKey(j)] = want

\* A part of three data rows, written in a block of two and a block of one,
\* is exported.
C15_Witness ==
  \E s \in Slots :
    /\ inv[s].pc = "trash"
    /\ inv[s].partDataRows = 3 /\ WRITE_CHUNK_ROWS = 2
    /\ Len(xlsx[PartKey(inv[s].job)]) = 4

\* ------------------------------------------------------------ v1 parts
\* C16: every part exported by the v1 processor holds the header row as its
\* first row, followed by the data rows of the part.
C16_V1PartStartsWithHeader ==
  \A key \in DOMAIN xlsxV1 :
    /\ Len(xlsxV1[key]) >= 2
    /\ xlsxV1[key][1] = TableOf(key[1])[1]
    /\ \A i \in 2..Len(xlsxV1[key]) :
         \E d \in 1..Len(DataRowsOf(key[1])) : xlsxV1[key][i] = DataRowsOf(key[1])[d]

\* ------------------------------------------- operator abandons a job
\* The operator deletes the Script Property JOB_KEY_V2 between executions;
\* the queue property stays as it is.
OperatorDeletesJob ==
  /\ AllIdle
  /\ job # NoJob
  /\ job' = NoJob
  /\ log' = <<>>
  /\ UNCHANGED <<cfgVars, v1Vars, queue, xlsx, temps, resumeTriggers,
                 watchdogInstalled, inv, folder>>

InitAbandon == Init /\ runner = "v2"

\* run_all_v2 on a deployment that has no queue yet.
RunAllV2Once(s) == queue = NoQueue /\ RunAllV2Build(s)

\* run_all_v2 is run once; afterwards only triggers, the watchdog, faults
\* and the operator's deletion of the job act.
NextAbandon ==
  \/ \E s \in Slots : RunAllV2Once(s) \/ FireResume(s) \/ StepV2(s) \/ Fault(s)
  \/ InstallWatchdog
  \/ Watchdog
  \/ WatchdogArmFails
  \/ OperatorDeletesJob

SpecAbandon == InitAbandon /\ [][NextAbandon]_vars

\* resume_all_v2 finds the queue on an unfinished entry and no job.
ResumesWithoutJob(s) ==
  /\ inv[s].pc = "resume_all_v2"
  /\ inv'[s].pc = "processJobStreamingV2"
  /\ job = NoJob

\* C17: when the job record is gone while the queue index is on an
\* unfinished entry, the next resume_all_v2 creates a fresh job for that
\* entry (cursor 0, part index 1) and leaves the queue alone; its pre-clean
\* deletes no exported XLSX part, and a part that exists is never written or
\* exported again, the loop skips it.
C17_FreshJobKeepsExportedParts ==
  [][\A s \in Slots :
       /\ ResumesWithoutJob(s) =>
            /\ QueueUnfinished(queue) /\ queue' = queue
            /\ job' # NoJob
            /\ job'.fileId = queue.items[queue.idx + 1]
            /\ job'.dataCursor = 0 /\ job'.partIndex = 1
            /\ xlsx' = xlsx
       /\ (/\ inv[s].pc = "loop" /\ inv'[s] # inv[s]
           /\ PartKey(inv[s].job) \in DOMAIN xlsx) =>
            /\ inv'[s].pc # "export"
            /\ xlsx' = xlsx /\ temps' = temps
       /\ \A k \in DOMAIN xlsx : k \in DOMAIN xlsx' /\ xlsx'[k] = xlsx[k]]_vars

\* An invocation that started a fresh job with parts 1 and 2 of the file
\* already exported has skipped both.
C17_Witness ==
  \E s \in Slots :
    /\ inv[s].pc = "loop"
    /\ inv[s].startCursor = 0 /\ inv[s].iters = 2
    /\ inv[s].job.partIndex = 3
    /\ log = <<Ev("part_skip_exists", "ok")>>
    /\ {<<inv[s].job.fileId, 1>>, <<inv[s].job.fileId, 2>>} \subseteq DOMAIN xlsx

\* ------------------------------------------ parseLinesToTable: sessions
\* A data line is held by what the session code reads of it: the Message
\* class, the session key makeKey_ builds from user and recipe, and the
\* Audit Time as epoch milliseconds.  tryToNine_ rejects no line, so data
\* line i is row i of the table below the header.
NoTs  == -1   \* safeParseTs_ returned null
Empty == -1   \* a cell holding ''

Keys == {1, 2}
Messages == {"checked out recipe", "checked in recipe", "auto-check in"}

\* The tests of lines 1004-1016 look for a phrase anywhere in the message:
\* a message holding two phrases passes the tests of both.
IsStart(msg) ==
  msg \in {"checked out recipe", "checked out recipe, auto-check in"}
IsEnd(msg) ==
  msg \in {"checked in recipe", "discarded checkout", "updated recipe",
           "auto-check in", "checked out recipe, auto-check in"}
IsAutoCheckIn(msg) ==
  msg \in {"auto-check in", "checked out recipe, auto-check in"}

\* Lines 912-914, the metadata pushed per data line.
RowMeta(ls) ==
  [i \in 1..Len(ls) |->
     [key |-> ls[i].key, isStart |-> IsStart(ls[i].msg),
      isEnd |-> IsEnd(ls[i].msg), isAutoEnd |-> IsAutoCheckIn(ls[i].msg),
      ts |-> ls[i].ts, outIndex |-> i]]

\* Pass 1, the row pushed per data line: the nine fields and the derived
\* fields up to action, held as the line they are computed from, and the
\* three session cells: session_start is the ISO form of the timestamp of a
\* start row (held as its milliseconds), the other two are ''.
Pass1Rows(ls) ==
  [i \in 1..Len(ls) |->
     [base |-> ls[i],
      session_start |-> IF IsStart(ls[i].msg) /\ ls[i].ts # NoTs
                        THEN ls[i].ts ELSE Empty,
      session_end |-> Empty,
      session_duration |-> Empty]]

\* A pass 1 that keeps one stack of start rows for all keys.
RECURSIVE StartsOfAnyKey(_, _, _)
StartsOfAnyKey(ls, k, n) ==
  IF n = 0 THEN <<>>
  ELSE IF IsStart(ls[n].msg)
       THEN Append(StartsOfAnyKey(ls, k, n - 1),
                   [rowIndex |-> n, startTs |-> ls[n].ts])
       ELSE StartsOfAnyKey(ls, k, n - 1)

\* Pass 1, startsByKey[k] once every line is read: the start rows of key k
\* in input order.
RECURSIVE StartsOf(_, _, _)
StartsOf(ls, k, n) ==
  IF n = 0 THEN <<>>
  ELSE IF IsStart(ls[n].msg) /\ ls[n].key = k
       THEN Append(StartsOf(ls, k, n - 1), [rowIndex |-> n, startTs |-> ls[n].ts])
       ELSE StartsOf(ls, k, n - 1)

\* Array.prototype.shift: the first element comes off.
Shift(stack) == [item |-> stack[1], rest |-> SubSeq(stack, 2, Len(stack))]

\* Array.prototype.pop: the last element comes off.
Pop(stack) ==
  [item |-> stack[Len(stack)], rest |-> SubSeq(stack, 1, Len(stack) - 1)]

\* A duration without the limits of lines 938-948.
DurationUncapped(rawSec, isAutoEnd) == rawSec

\* A duration that counts 28000 per whole elapsed day and nothing else once
\* the raw value passes 28000.
DurationPerWholeDay(rawSec, isAutoEnd) ==
  IF isAutoEnd THEN Min2(rawSec, 8 * 3600)
  ELSE IF rawSec > 28000 THEN (rawSec \div 86400) * 28000
  ELSE rawSec

\* A cap that counts eight hours per day as 28800 s for every end event.
DurationEightHoursPerDay(rawSec, isAutoEnd) ==
  IF isAutoEnd THEN Min2(rawSec, 8 * 3600)
  ELSE IF rawSec > 28000 THEN Max2(1, rawSec \div 86400) * 28800
  ELSE rawSec

\* Lines 938-948.
DurationSec(rawSec, isAutoEnd) ==
  IF isAutoEnd
  THEN LET eightHours == 8 * 3600
       IN  IF rawSec < eightHours THEN rawSec ELSE eightHours
  ELSE IF rawSec > 28000
  THEN LET days == rawSec \div 86400
       IN  IF days <= 1 THEN 28000 ELSE days * 28000
  ELSE rawSec

\* A pass 2 that takes every end event, whatever its timestamp.
SkippedNonEnd(meta) == ~meta.isEnd

\* Line 930: if (!meta.isEnd || !meta.ts) continue;
Skipped(meta) == ~meta.isEnd \/ meta.ts = NoTs

\* Pass 2 from rowMeta[j] on; session_duration holds String(durationSec),
\* kept as the number.
RECURSIVE Pass2(_, _, _, _)
Pass2(rowMeta, j, startsByKey, rows) ==
  IF j > Len(rowMeta) THEN rows
  ELSE LET meta == rowMeta[j]
       IN  IF Skipped(meta)
           THEN Pass2(rowMeta, j + 1, startsByKey, rows)
           ELSE IF Len(startsByKey[meta.key]) = 0
           THEN Pass2(rowMeta, j + 1, startsByKey, rows)
           ELSE LET popped == Pop(startsByKey[meta.key])
                    start == popped.item
                    startMs == IF start.startTs # NoTs THEN start.startTs ELSE meta.ts
                    rawSec == Max2(0, (meta.ts - startMs) \div 1000)
                    durationSec == DurationSec(rawSec, meta.isAutoEnd)
                IN  Pass2(rowMeta, j + 1,
                          [startsByKey EXCEPT ![meta.key] = popped.rest],
                          [rows EXCEPT ![start.rowIndex] =
                             [@ EXCEPT !.session_end = meta.ts,
                                       !.session_duration = durationSec]])

\* The session cells of the rows parseLinesToTable returns for data lines ls.
SessionCells(ls) ==
  Pass2(RowMeta(ls), 1, [k \in Keys |-> StartsOf(ls, k, Len(ls))], Pass1Rows(ls))

\* Inputs that vary the order of the events: line i carries the timestamp
\* of second i or an unparseable one.
OrderInputs ==
  UNION {[1..n -> Messages \X Keys \X BOOLEAN] : n \in 1..MaxEvents}

OrderLines(in) ==
  [i \in DOMAIN in |->
     [msg |-> in[i][1], key |-> in[i][2],
      ts |-> IF in[i][3] THEN 1000 * i ELSE NoTs]]

\* Inputs that vary the elapsed time: one start and one end of the same key.
Times ==
  {0, 999, 1000, 3600000, 28000000, 28001000, 28799999, 28800000, 28800999,
   86400000, 172799999, 172800000, 259200000}

TimeLines(t1, msg, t2) ==
  <<[msg |-> "checked out recipe", key |-> 1, ts |-> t1],
    [msg |-> msg, key |-> 1, ts |-> t2]>>

InitParse ==
  /\ OneConfig
  /\ folder = {1}
  /\ \/ \E in \in OrderInputs : lines = OrderLines(in)
     \/ \E t1 \in Times \cup {NoTs}, t2 \in Times :
          \E msg \in {"checked in recipe", "auto-check in"} :
            lines = TimeLines(t1, msg, t2)
  /\ out = <<>>
  /\ NoLine
  /\ NoRead

\* parseLinesToTable is applied to the lines.
ParseLinesToTable ==
  /\ out = <<>>
  /\ out' = SessionCells(lines)
  /\ UNCHANGED <<MAX_WRITE_ROWS_PER_RUN, AUTO_SPLIT_CHUNK_ROWS, WRITE_CHUNK_ROWS,
                 SHEET_CELL_LIMIT, csvLines, runner, lines, lineVars, v1Vars,
                 v2Vars, readVars, log, inv,
                 folder>>

SpecParse == InitParse /\ [][ParseLinesToTable]_vars

Parsed == out # <<>>

\* Row i is a start row that pass 2 closed.
Closed(i) == IsStart(lines[i].msg) /\ out[i].session_end # Empty

\* The end event whose timestamp a closed start row carries.
CloserOf(i) ==
  CHOOSE j \in 1..Len(lines) :
    /\ IsEnd(lines[j].msg) /\ lines[j].key = lines[i].key
    /\ lines[j].ts = out[i].session_end

\* The positions of the events of key k, in input order.
PositionsOfKey(k) ==
  LET HasKey(i) == lines[i].key = k
  IN  SelectSeq([i \in 1..Len(lines) |-> i], HasKey)

\* The events of key k are two starts and two ends with parseable
\* timestamps, the starts at the places a and b of the four.
TwoSessionsOfKey(k, a, b) ==
  LET p == PositionsOfKey(k)
  IN  /\ Len(p) = 4
      /\ \A n \in 1..4 :
           IF n \in {a, b} THEN IsStart(lines[p[n]].msg)
           ELSE IsEnd(lines[p[n]].msg) /\ lines[p[n]].ts # NoTs

\* C18: pairing is LIFO per key: when the events of a key are two starts S1,
\* S2 followed by two ends E1, E2 with parseable timestamps, E1 closes S2 and
\* E2 closes S1.
C18_PairingIsLifo ==
  Parsed =>
    \A k \in Keys : TwoSessionsOfKey(k, 1, 2) =>
      LET p == PositionsOfKey(k)
      IN  /\ out[p[2]].session_end = lines[p[3]].ts
          /\ out[p[1]].session_end = lines[p[4]].ts

C18_Witness ==
  /\ Parsed
  /\ Len(lines) = 4
  /\ \A i \in 1..4 : lines[i].key = 1 /\ lines[i].ts = 1000 * i
  /\ IsStart(lines[1].msg) /\ IsStart(lines[2].msg)
  /\ lines[3].msg = "checked in recipe" /\ lines[4].msg = "checked in recipe"
  /\ out[2].session_end = 3000 /\ out[1].session_end = 4000

\* C19: a session is closed only by an end event of its key that follows
\* its start in the input: of the events S1, E1, S2, E2 of one key, E1 closes
\* S1 and E2 closes S2, and an end event that precedes every start event of
\* its key closes nothing.
C19_ClosedByFollowingEnd ==
  Parsed =>
    /\ \A i \in 1..Len(lines) : Closed(i) =>
         \E j \in (i + 1)..Len(lines) :
           /\ IsEnd(lines[j].msg) /\ lines[j].key = lines[i].key
           /\ lines[j].ts = out[i].session_end
    /\ \A k \in Keys : TwoSessionsOfKey(k, 1, 3) =>
         LET p == PositionsOfKey(k)
         IN  /\ out[p[1]].session_end = lines[p[2]].ts
             /\ out[p[3]].session_end = lines[p[4]].ts

\* C20: a session closed by an auto-end event has session_duration =
\* min(rawSec, 28800) with rawSec = max(0, floor((end - start) / 1000)), so
\* never more than 28800.
C20_AutoEndCappedAtEightHours ==
  Parsed =>
    \A i \in 1..Len(lines) :
      (Closed(i) /\ IsAutoCheckIn(lines[CloserOf(i)].msg)) =>
        /\ out[i].session_duration <= 28800
        /\ lines[i].ts # NoTs =>
             out[i].session_duration =
               Min2(Max2(0, (out[i].session_end - lines[i].ts) \div 1000), 28800)

\* An auto-end 28800.999 s after the start closes the session with 28800.
C20_Witness ==
  /\ Parsed
  /\ lines = TimeLines(0, "auto-check in", 28800999)
  /\ out[1].session_end = 28800999
  /\ out[1].session_duration = 28800

\* The whole seconds from the start of closed row i to the end that closed
\* it, 0 when the end is the earlier one or the start has no timestamp.
RawSecOf(i) ==
  IF lines[i].ts = NoTs THEN 0
  ELSE Max2(0, (out[i].session_end - lines[i].ts) \div 1000)

\* C21: a session closed by a non-auto end event keeps its raw duration up to
\* 28000 s; above that the duration is 28000 when fewer than two whole days
\* elapsed and 28000 times the number of whole days otherwise.
C21_NonAutoDurationInDayUnits ==
  Parsed =>
    \A i \in 1..Len(lines) :
      (Closed(i) /\ ~IsAutoCheckIn(lines[CloserOf(i)].msg)) =>
        LET rawSec == RawSecOf(i)
            days == rawSec \div 86400
        IN  out[i].session_duration =
              IF rawSec <= 28000 THEN rawSec
              ELSE IF days \in {0, 1} THEN 28000
              ELSE days * 28000

\* A check-in three days after the checkout gives 84000; one an hour after
\* would give 3600.
C21_Witness ==
  /\ Parsed
  /\ lines = TimeLines(0, "checked in recipe", 259200000)
  /\ out[1].session_end = 259200000
  /\ out[1].session_duration = 84000

\* The positions of the start events of key k, in input order.
StartsOfKey(k) ==
  LET IsStartOfKey(i) == lines[i].key = k /\ IsStart(lines[i].msg)
  IN  SelectSeq([i \in 1..Len(lines) |-> i], IsStartOfKey)

\* The number of end events of key k that carry a parseable timestamp.
ValidEndsOfKey(k) ==
  Cardinality({j \in 1..Len(lines) :
                 /\ lines[j].key = k /\ IsEnd(lines[j].msg)
                 /\ lines[j].ts # NoTs})

Quote == "\""
Alphabet == {"a", " ", "|", Quote}

\* splitPipesQuoted from character i on (lines 1033-1046).
RECURSIVE Scan(_, _, _, _, _)
Scan(line, i, cur, inQ, acc) ==
  IF i > Len(line) THEN Append(acc, cur)
  ELSE LET ch == line[i]
       IN  IF ch = Quote
           THEN IF inQ /\ i + 1 <= Len(line) /\ line[i + 1] = Quote
                THEN Scan(line, i + 2, Append(cur, Quote), inQ, acc)
                ELSE Scan(line, i + 1, cur, ~inQ, acc)
           ELSE IF ch = "|" /\ ~inQ
           THEN Scan(line, i + 1, <<>>, inQ, Append(acc, cur))
           ELSE Scan(line, i + 1, Append(cur, ch), inQ, acc)

\* A splitter that drops the quotes and splits at every pipe.
RECURSIVE ScanPlain(_, _, _, _)
ScanPlain(line, i, cur, acc) ==
  IF i > Len(line) THEN Append(acc, cur)
  ELSE IF line[i] = "|" THEN ScanPlain(line, i + 1, <<>>, Append(acc, cur))
  ELSE IF line[i] = Quote THEN ScanPlain(line, i + 1, cur, acc)
  ELSE ScanPlain(line, i + 1, Append(cur, line[i]), acc)

SplitPipesPlain(line) == ScanPlain(line, 1, <<>>, <<>>)

SplitPipesQuoted(line) == Scan(line, 1, <<>>, FALSE, <<>>)

\* String.prototype.trim on a text of the alphabet.
RECURSIVE Trim(_)
Trim(t) ==
  IF t = <<>> THEN t
  ELSE IF t[1] = " " THEN Trim(Tail(t))
  ELSE IF t[Len(t)] = " " THEN Trim(SubSeq(t, 1, Len(t) - 1))
  ELSE t

\* Array.prototype.join('|').
RECURSIVE JoinPipe(_)
JoinPipe(cells) ==
  IF Len(cells) = 0 THEN <<>>
  ELSE IF Len(cells) = 1 THEN cells[1]
  ELSE cells[1] \o <<"|">> \o JoinPipe(Tail(cells))

\* A tryToNine_ that pads or cuts every line to nine fields and tags it
\* as padded.
TryToNinePadding(cells) ==
  [ok |-> TRUE, reason |-> "PADDED",
   cols |-> [n \in 1..9 |-> IF n <= Len(cells) THEN cells[n] ELSE <<>>]]

\* A tryToNine_ that keeps field 4 alone and drops the surplus fields.
TryToNineDropping(cells) ==
  IF Len(cells) <= 9 THEN TryToNinePadding(cells)
  ELSE [ok |-> TRUE, reason |-> "COERCED",
        cols |-> SubSeq(cells, 1, 4) \o SubSeq(cells, Len(cells) - 4, Len(cells))]

\* A tryToNine_ that rejects the lines it would have to pad.
TryToNineStrict(cells) ==
  IF Len(cells) >= 9 THEN TryToNinePadding(cells)
  ELSE [ok |-> FALSE, cols |-> <<>>, reason |-> "TOO_FEW_FIELDS"]

\* A tryToNine_ that refuses the lines it would have to merge and keeps the
\* tag of the merge as the reason.
TryToNineRefusingMerge(cells) ==
  IF Len(cells) <= 9 THEN TryToNinePadding(cells)
  ELSE [ok |-> FALSE, cols |-> <<>>, reason |-> "COERCED"]

\* A tryToNine_ whose test of line 1059 lets exactly ten fields through to the
\* rejection of line 1065.
TryToNineRejectingTen(cells) ==
  IF Len(cells) <= 9 THEN TryToNinePadding(cells)
  ELSE IF Len(cells) = 10
  THEN [ok |-> FALSE, cols |-> <<>>, reason |-> "TOO_MANY_FIELDS"]
  ELSE [ok |-> TRUE,
        cols |-> SubSeq(cells, 1, 3)
                 \o <<JoinPipe(SubSeq(cells, 4, Len(cells) - 5))>>
                 \o SubSeq(cells, Len(cells) - 4, Len(cells)),
        reason |-> "COERCED"]

\* tryToNine_ (lines 1056-1070); a rejection carries no cols.
TryToNine(cells) ==
  IF Len(cells) = 9 THEN [ok |-> TRUE, cols |-> cells, reason |-> ""]
  ELSE IF Len(cells) > 9
  THEN IF Len(cells) >= 10
       THEN LET head == SubSeq(cells, 1, 3)
                msg == JoinPipe(SubSeq(cells, 4, Len(cells) - 5))
                tail == SubSeq(cells, Len(cells) - 4, Len(cells))
            IN  [ok |-> TRUE, cols |-> head \o <<msg>> \o tail, reason |-> "COERCED"]
       ELSE [ok |-> FALSE, cols |-> <<>>, reason |-> "TOO_MANY_FIELDS"]
  ELSE LET padded == [n \in 1..9 |-> IF n <= Len(cells) THEN cells[n] ELSE <<>>]
       IN  [ok |-> TRUE, cols |-> padded, reason |-> "PADDED"]

\* Lines read in pass 1: every short text of the alphabet, and every list of
\* up to MaxCells fields '' or 'a' joined by pipes.
FreeTexts == UNION {[1..n -> Alphabet] : n \in 1..MaxChars}
CellLists == UNION {[1..n -> {<<>>, <<"a">>}] : n \in 1..MaxCells}

InitLine ==
  /\ OneConfig
  /\ folder = {1}
  /\ lines = <<>>
  /\ out = <<>>
  /\ raw \in FreeTexts \cup {JoinPipe(cells) : cells \in CellLists}
  /\ raw # <<>>
  /\ lineIdx \in {1, MaxLines - 1}
  /\ cells0 = <<>>
  /\ norm = NoNorm
  /\ badSink \in {NoSink, 1}
  /\ badLines = <<>>
  /\ linePc = "split"
  /\ NoRead

\* Line 878: split the raw line and trim the fields.
SplitLine ==
  /\ linePc = "split"
  /\ cells0' = [n \in 1..Len(SplitPipesQuoted(raw)) |-> Trim(SplitPipesQuoted(raw)[n])]
  /\ linePc' = "tryToNine"
  /\ UNCHANGED <<MAX_WRITE_ROWS_PER_RUN, AUTO_SPLIT_CHUNK_ROWS, WRITE_CHUNK_ROWS,
                 SHEET_CELL_LIMIT, csvLines, runner, lines, out, raw, lineIdx,
                 norm, badSink, badLines, v1Vars, v2Vars, readVars, log, inv,
                 folder>>

\* Line 879.
NormLine ==
  /\ linePc = "tryToNine"
  /\ norm' = TryToNine(cells0)
  /\ linePc' = "push"
  /\ UNCHANGED <<MAX_WRITE_ROWS_PER_RUN, AUTO_SPLIT_CHUNK_ROWS, WRITE_CHUNK_ROWS,
                 SHEET_CELL_LIMIT, csvLines, runner, lines, out, raw, lineIdx,
                 cells0, badSink, badLines, v1Vars, v2Vars, readVars, log, inv,
                 folder>>

\* appendBadLine_ (lines 1213-1222): one row in the bad-lines workbook.
AppendBadLine(book, fileName, lineNo, rawLine, reason) ==
  Append(book, [file |-> fileName, orig_line_no |-> lineNo, raw_line |-> rawLine,
                reason |-> IF reason = "" THEN "NOT_PROCESSED" ELSE reason])

\* Lines 881-907: a rejected line goes to the sink, if there is one, and is
\* skipped; an accepted one is pushed as a row that starts with its cols.
PushOrReject ==
  /\ linePc = "push"
  /\ IF ~norm.ok
     THEN /\ badLines' = IF badSink # NoSink
                         THEN AppendBadLine(badLines, badSink, lineIdx + 1, raw, norm.reason)
                         ELSE badLines
          /\ out' = out
     ELSE /\ out' = Append(out, norm.cols)
          /\ badLines' = badLines
  /\ linePc' = "next"
  /\ UNCHANGED <<MAX_WRITE_ROWS_PER_RUN, AUTO_SPLIT_CHUNK_ROWS, WRITE_CHUNK_ROWS,
                 SHEET_CELL_LIMIT, csvLines, runner, lines, raw, lineIdx, cells0,
                 norm, badSink, v1Vars, v2Vars, readVars, log, inv,
                 folder>>

NextLine == SplitLine \/ NormLine \/ PushOrReject

SpecLine == InitLine /\ [][NextLine]_vars

\* tryToNine_ has returned for the fields of the line.
Normed == norm # NoNorm

\* C23: for a list of exactly 9 fields tryToNine_ returns ok, cols equal to
\* the fields unchanged and in order, and an empty reason.
C23_NineFieldsPassThrough ==
  (Normed /\ Len(cells0) = 9) =>
    /\ norm.ok
    /\ norm.cols = cells0
    /\ norm.reason = ""

C23_Witness ==
  /\ Normed
  /\ Len(cells0) = 9
  /\ cells0[1] = <<"a">> /\ cells0[2] = <<>> /\ cells0[9] = <<"a">>
  /\ norm.cols = cells0

\* C24: for a list of n > 9 fields tryToNine_ returns ok with exactly 9
\* fields tagged COERCED: the first three inputs, then inputs 4..n-5 joined
\* with '|', then the last five inputs.
C24_SurplusMergedIntoMessage ==
  (Normed /\ Len(cells0) > 9) =>
    LET n == Len(cells0)
    IN  /\ norm.ok
        /\ norm.reason = "COERCED"
        /\ Len(norm.cols) = 9
        /\ \A f \in 1..3 : norm.cols[f] = cells0[f]
        /\ norm.cols[4] = JoinPipe([f \in 1..(n - 8) |-> cells0[f + 3]])
        /\ \A f \in 5..9 : norm.cols[f] = cells0[n - 9 + f]

\* Eleven fields: the three in the middle become the message 'a||a'.
C24_Witness ==
  /\ Normed
  /\ Len(cells0) = 11
  /\ cells0[4] = <<"a">> /\ cells0[5] = <<>> /\ cells0[6] = <<"a">>
  /\ norm.ok
  /\ norm.cols[4] = <<"a", "|", "|", "a">>

\* C25: for a list of n < 9 fields (n >= 1) tryToNine_ returns ok with
\* exactly 9 fields tagged PADDED: the n inputs unchanged and in order, then
\* 9 - n empty strings; the input list is left as it was.
C25_ShortLinePadded ==
  [][(linePc = "tryToNine" /\ linePc' = "push" /\ Len(cells0) < 9) =>
       /\ Len(cells0) >= 1
       /\ norm'.ok
       /\ norm'.reason = "PADDED"
       /\ Len(norm'.cols) = 9
       /\ \A f \in 1..9 :
            norm'.cols[f] = IF f <= Len(cells0) THEN cells0[f] ELSE <<>>
       /\ cells0' = cells0]_vars

C25_Witness ==
  /\ Normed
  /\ Len(cells0) = 3
  /\ cells0[1] = <<"a">> /\ cells0[3] = <<"a">>
  /\ Len(norm.cols) = 9 /\ norm.cols[3] = <<"a">> /\ norm.cols[4] = <<>>

RECURSIVE ReadAs(_, _)
ReadAs(line, i) ==
  IF i = 1 THEN "outside"
  ELSE LET before == ReadAs(line, i - 1)
       IN  IF before = "second" THEN "inside"
           ELSE IF line[i - 1] # Quote THEN before
           ELSE IF before = "inside" /\ line[i] = Quote THEN "second"
           ELSE IF before = "inside" THEN "outside"
           ELSE "inside"

\* The characters a scanner copies: all but the quotes that toggle its state.
Copied(line) ==
  LET Kept(i) == line[i] # Quote \/ ReadAs(line, i) = "second"
      kept == SelectSeq([i \in 1..Len(line) |-> i], Kept)
  IN  [n \in 1..Len(kept) |-> line[kept[n]]]

\* The line has been split.
Split == linePc # "split"

\* C27: a '|' splits the line only when read outside quotes, so there are
\* 1 + (number of '|' outside quotes) fields; a doubled quote read inside
\* quotes gives one literal '"' and leaves the scanner inside; a lone '"'
\* toggles the state and is not copied; after an unclosed quote the rest of
\* the line is one field.
C27_PipesSplitOnlyOutsideQuotes ==
  Split =>
    LET fields == SplitPipesQuoted(raw)
        n == Len(raw)
        outsidePipes == {i \in 1..n : raw[i] = "|" /\ ReadAs(raw, i) = "outside"}
        opened == {i \in 1..n : raw[i] = Quote /\ ReadAs(raw, i) = "outside"}
        closed == {i \in 1..n : raw[i] = Quote /\ ReadAs(raw, i) = "inside"
                                 /\ (i = n \/ ReadAs(raw, i + 1) = "outside")}
    IN  /\ Len(fields) = 1 + Cardinality(outsidePipes)
        /\ JoinPipe(fields) = Copied(raw)
        /\ Cardinality(opened) > Cardinality(closed) =>
             LET last == CHOOSE i \in opened : \A j \in opened : j <= i
                 rest == SubSeq(raw, last, n)
                 tail == fields[Len(fields)]
             IN  /\ \A j \in outsidePipes : j < last
                 /\ Len(tail) >= Len(Copied(rest))
                 /\ SubSeq(tail, Len(tail) - Len(Copied(rest)) + 1, Len(tail))
                      = Copied(rest)
        /\ cells0 = [f \in 1..Len(fields) |-> Trim(fields[f])]

\* The line "|""| : the quote is never closed, both pipes and one literal
\* quote stay in the single field.
C27_Witness ==
  /\ Split
  /\ raw = <<Quote, "|", Quote, Quote, "|">>
  /\ SplitPipesQuoted(raw) = << <<"|", Quote, "|">> >>
  /\ cells0 = << <<"|", Quote, "|">> >>

\* ------------------------------------------------- resume_all_v2_safe (C28)
\* An invocation entered through resume_all_v2_safe ends in the catch block
\* of lines 1380-1383: 'resume_error' is logged by this step.
CaughtBySafe(s) ==
  /\ Running(s) /\ inv[s].wrapper = "safe"
  /\ inv'[s] = IdleInv
  /\ \E i \in 1..Len(log') : log'[i][1] = "resume_error"

\* The catch block armed its retry: 'trigger_set' with a delay of 3 minutes
\* is logged and one resume trigger is pending.
RetryArmed ==
  /\ \E i \in 1..Len(log') : log'[i][1] = "trigger_set" /\ log'[i][2] = 3
  /\ resumeTriggers' = 1

\* The catch block writes neither record; the queue index may only have been
\* advanced by resume_all_v2 itself (line 1363) before scheduleResumeAt_ threw.
HandlerKeepsRecords(s) ==
  /\ job' = job
  /\ \/ queue' = queue
     \/ /\ inv[s].pc = "after"
        /\ queue' = [inv[s].q EXCEPT !.idx = @ + 1]

\* C28: every exception that escapes resume_all_v2 under resume_all_v2_safe
\* (a failure to arm a trigger included) is logged as 'resume_error' and
\* answered by a resume_all_v2_safe trigger armed 3 minutes ahead, and the
\* handler changes neither the job record nor the queue record.
C28_ErrorAnsweredByRetry ==
  [][\A s \in Slots : CaughtBySafe(s) => RetryArmed /\ HandlerKeepsRecords(s)]_vars

\* ------------------------------------------- readCsvLinesReliably_ (C29)
\* Lines 649-650.
maxTries == 5
InitialDelayMs == 500

\* The file read has at most this many lines.
MaxFileLines == 2

\* The persisted job of the file being read: fresh (cursor 0, totals not yet
\* set) or paused after some rows.
ReadJobs ==
  {[fileId |-> 1, totalRows |-> IF c = 0 THEN 0 ELSE MaxBudget + 2,
    totalCols |-> IF c = 0 THEN 0 ELSE TableCols(1), dataCursor |-> c,
    partIndex |-> c + 1] : c \in 0..MaxBudget}

\* The messages of the exceptions an attempt can end with.
ErrorMessages == {"Request Too Large", "HTTP 413", "Service error"}

\* Line 684: msg.indexOf('Request Too Large') !== -1 || msg.indexOf('413') !== -1
TooLarge(m) == m \in {"Request Too Large", "HTTP 413"}

\* A back-off that grows by the initial delay each time.
BackOffLinear(d) == d + InitialDelayMs

\* Line 693: delayMs *= 2
BackOff(d) == d * 2

\* Lines 675-679 and 740-744: the empty lines are dropped.
NonEmpty(ls) == SelectSeq(ls, LAMBDA v : v # Blank)

\* processJobStreamingV2_ is about to call readCsvLinesReliably_ (line 1265)
\* for the file of the persisted job.
InitRead ==
  /\ MAX_WRITE_ROWS_PER_RUN = 1
  /\ AUTO_SPLIT_CHUNK_ROWS = 1
  /\ WRITE_CHUNK_ROWS = 1
  /\ SHEET_CELL_LIMIT = TableCols(Cardinality(Files)) * (MaxBudget + 2)
  /\ csvLines = [f \in Files |-> 2]
  /\ runner = "v2"
  /\ queue = [idx |-> 0, items |-> SortedItems({1})]
  /\ job \in ReadJobs
  /\ xlsx = <<>>
  /\ temps = {}
  /\ resumeTriggers = 0
  /\ watchdogInstalled = FALSE
  /\ log = <<>>
  /\ inv = [s \in Slots |-> IdleInv]
  /\ jobV1 = NoJob
  /\ xlsxV1 = <<>>
  /\ tempsV1 = {}
  /\ resumeTriggersV1 = 0
  /\ folder = {1}
  /\ NoParse
  /\ fileLines \in UNION {[1..n -> {Blank, 1}] : n \in 0..MaxFileLines}
  /\ attempt = 0
  /\ delayMs = 0
  /\ slept = <<>>
  /\ errMsg = ""
  /\ readPc = "called"
  /\ readOut = NoOut

\* what readCsvLinesReliably_ leaves alone
readFrame ==
  <<MAX_WRITE_ROWS_PER_RUN, AUTO_SPLIT_CHUNK_ROWS, WRITE_CHUNK_ROWS,
    SHEET_CELL_LIMIT, csvLines, runner, parseVars, v1Vars, v2Vars, log, inv,
    folder, fileLines>>

\* Lines 644-651: the Advanced Drive service is there; the loop starts.
ReadStart ==
  /\ readPc = "called"
  /\ attempt' = 1
  /\ delayMs' = InitialDelayMs
  /\ readPc' = "try"
  /\ UNCHANGED <<readFrame, slept, errMsg, readOut>>

\* Line 645: assertAdvancedDrive_ throws (lines 572-576).
AssertAdvancedDriveThrows ==
  /\ readPc = "called"
  /\ readPc' = "thrown"
  /\ UNCHANGED <<readFrame, attempt, delayMs, slept, errMsg, readOut>>

\* Lines 654-680 and the finally of 694-697: the conversion succeeds, the
\* non-empty cells of column A are returned and the temp sheet is trashed.
AttemptReturns ==
  /\ readPc = "try"
  /\ readOut' = [via |-> "convert", lines |-> NonEmpty(fileLines)]
  /\ readPc' = "returned"
  /\ UNCHANGED <<readFrame, attempt, delayMs, slept, errMsg>>

\* Lines 682-697: the attempt throws an exception with message m.
AttemptFails(m) ==
  /\ readPc = "try"
  /\ errMsg' = m
  /\ IF TooLarge(m) \/ attempt = maxTries
     THEN /\ readPc' = "fallback"
          /\ UNCHANGED <<attempt, delayMs, slept>>
     ELSE /\ slept' = Append(slept, delayMs)
          /\ delayMs' = BackOff(delayMs)
          /\ attempt' = attempt + 1
          /\ UNCHANGED readPc
  /\ UNCHANGED <<readFrame, readOut>>

\* Line 699, readCsvByChunkedDownload_ (lines 708-746) returns.
FallbackReturns ==
  /\ readPc = "fallback"
  /\ readOut' = [via |-> "chunked", lines |-> NonEmpty(fileLines)]
  /\ readPc' = "returned"
  /\ UNCHANGED <<readFrame, attempt, delayMs, slept, errMsg>>

\* Line 699, readCsvByChunkedDownload_ throws (UrlFetchApp.fetch, line 718).
FallbackThrows ==
  /\ readPc = "fallback"
  /\ readPc' = "thrown"
  /\ UNCHANGED <<readFrame, attempt, delayMs, slept, errMsg, readOut>>

NextRead ==
  \/ ReadStart
  \/ AssertAdvancedDriveThrows
  \/ AttemptReturns
  \/ \E m \in ErrorMessages : AttemptFails(m)
  \/ FallbackReturns
  \/ FallbackThrows

SpecRead == InitRead /\ [][NextRead]_vars

\* The fallback was invoked: it is running, it returned, or it threw.
FellBack ==
  \/ readPc = "fallback"
  \/ readOut.via = "chunked"
  \/ readPc = "thrown" /\ attempt > 0

\* What holds of a call of readCsvLinesReliably_ at any point: the waits made
\* are one per earlier failed attempt and double from 500 ms; a further
\* attempt is made only after failures that were not too large; the fallback
\* runs only after a failure that was the fifth or too large; lines returned
\* by an attempt are the file's, with the fallback never invoked.
ReadAsRetried ==
  /\ attempt <= maxTries
  /\ \A k \in 1..Len(slept) : slept[k] = 500 * 2 ^ (k - 1)
  /\ attempt > 0 => Len(slept) = attempt - 1
  /\ readPc = "try" => errMsg \notin {"Request Too Large", "HTTP 413"}
  /\ FellBack => /\ errMsg # ""
                 /\ \/ attempt = maxTries
                    \/ errMsg \in {"Request Too Large", "HTTP 413"}
  /\ readOut.via = "convert" => /\ ~FellBack
                                /\ readOut.lines = NonEmpty(fileLines)

\* C29: readCsvLinesReliably_ makes at most 5 attempts; a failed attempt
\* k < 5 that is not too large is followed by a wait of 500 * 2^(k-1) ms; the
\* chunked download is used exactly when attempt 5 failed or an attempt failed
\* as too large, with no further wait; a successful attempt returns its lines
\* without the fallback; and when the fallback throws the persisted job is
\* what it was.
C29_RetriesThenFallsBack ==
  [][ReadAsRetried' /\ (readPc' = "thrown" => job' = job)]_vars

\* Four failed attempts with their waits, a fifth failure, and the fallback
\* throws while a paused job is persisted.
C29_Witness ==
  /\ readPc = "thrown"
  /\ attempt = maxTries
  /\ slept = <<500, 1000, 2000, 4000>>
  /\ errMsg = "Service error"
  /\ job.dataCursor > 0

\* ------------------------------------------ totals of a job record (C30)
\* The operator replaces file 1 in Drive by a version with n non-empty lines
\* while no handler runs and the job of file 1 is persisted with its totals.
FileChanges(n) ==
  /\ AllIdle
  /\ \/ job # NoJob /\ job.fileId = 1 /\ job.totalRows # 0
     \/ jobV1 # NoJob /\ jobV1.fileId = 1 /\ jobV1.totalRows # 0
  /\ n # csvLines[1]
  /\ csvLines' = [csvLines EXCEPT ![1] = n]
  /\ UNCHANGED <<MAX_WRITE_ROWS_PER_RUN, AUTO_SPLIT_CHUNK_ROWS, WRITE_CHUNK_ROWS,
                 SHEET_CELL_LIMIT, runner, parseVars, readVars, v1Vars, v2Vars,
                 log, inv, folder>>

\* One row per execution and per part, so that a file spans several
\* invocations; file 1 starts with two data rows.
InitResized ==
  /\ Init
  /\ MAX_WRITE_ROWS_PER_RUN = 1
  /\ SHEET_CELL_LIMIT = TableCols(Cardinality(Files)) * (MaxBudget + 2)
  /\ csvLines[1] = 3

NextResized ==
  \/ Next
  \/ \E n \in {1, MaxLines} : FileChanges(n)

SpecResized == InitResized /\ [][NextResized]_vars

\* The totals of job record a are set and b is the record of the same file.
SameJobSized(a, b) ==
  /\ a # NoJob /\ b # NoJob
  /\ a.totalRows # 0 /\ a.totalCols # 0
  /\ a.fileId = b.fileId

KeepsTotals(a, b) == b.totalRows = a.totalRows /\ b.totalCols = a.totalCols

\* C30: once the persisted job record (v2 or v1) has non-zero totalRows and
\* totalCols, no step of any invocation changes either for that job, whatever
\* size the file has when it is parsed again; an invocation takes them from
\* the parsed table only if the record it loaded has a zero total.
C30_TotalsFixedOnceSet ==
  [][/\ SameJobSized(job, job') => KeepsTotals(job, job')
     /\ SameJobSized(jobV1, jobV1') => KeepsTotals(jobV1, jobV1')
     /\ \A s \in Slots :
          /\ inv[s].pc \in {"processJobStreamingV2", "processJobStreaming"}
          /\ inv'[s].pc \in {"loop", "loop_v1"}
          => IF inv[s].job.totalRows = 0 \/ inv[s].job.totalCols = 0
             THEN /\ inv'[s].job.totalRows = Len(TableOf(inv[s].job.fileId))
                  /\ inv'[s].job.totalCols = TableCols(inv[s].job.fileId)
             ELSE KeepsTotals(inv[s].job, inv'[s].job)]_vars

\* A v2 job whose totals were set from a table of 3 rows is saved again after
\* file 1 changed to another size.
C30_Witness ==
  /\ job # NoJob /\ job.fileId = 1
  /\ job.totalRows = 3 /\ job.dataCursor = 2
  /\ csvLines[1] = MaxLines

\* ------------------------------------------------- watchdog_v2 frame (C31)
\* The step is a run of watchdog_v2: one of its three log rows is appended.
WatchdogStep ==
  \E i \in 1..Len(log') :
    log'[i][1] \in {"watchdog_ok", "watchdog_rescheduled", "watchdog_error"}

\* C31: a run of watchdog_v2 changes neither the persisted job record nor
\* the persisted queue record, and writes or deletes no output part (XLSX or
\* temp sheet): it acts on the pending resume triggers and the log only.
C31_WatchdogKeepsJobQueueAndParts ==
  [][WatchdogStep => /\ job' = job
                     /\ queue' = queue
                     /\ xlsx' = xlsx
                     /\ temps' = temps]_vars

\* watchdog_v2 re-armed the resume while a job with an exported part is
\* persisted.
C31_Witness ==
  /\ \E i \in 1..Len(log) : log[i][1] = "watchdog_rescheduled"
  /\ job # NoJob /\ job.partIndex > 1
  /\ xlsx # <<>>
  /\ resumeTriggers = 1

\* --------------------------------------- run_range and a job in progress (C32)
\* run_range reaches a file of its range while the persisted v1 job is that
\* of another file.
ReachesFileDuringOtherJob(s) ==
  /\ inv[s].pc = "run_range"
  /\ inv[s].i <= Len(inv[s].files)
  /\ jobV1 # NoJob
  /\ jobV1.fileId # inv[s].files[inv[s].i]

\* C32: when run_range reaches a file while a v1 job of a different file is
\* in progress, it processes that job first and leaves its persisted cursor
\* and part index as they are.
C32_RunRangeKeepsJobInProgress ==
  [][\A s \in Slots : ReachesFileDuringOtherJob(s) /\ inv'[s] # inv[s]
        => /\ jobV1' = jobV1
           /\ inv'[s].job = jobV1]_vars

\* --------------------------------------- scheduleResumeAt_ step by step (C33)
\* scheduleResumeAt_ called at line 1349, its two halves as separate steps.
\* Lines 1126-1132: every pending trigger of the handler is deleted.
PauseDeletesTriggers(s) ==
  /\ inv[s].pc = "loop"
  /\ ~LoopCondition(inv[s].job, inv[s].remainingThisRun)
  /\ inv[s].job.dataCursor < TotalDataRows(inv[s].job)
  /\ resumeTriggers' = 0
  /\ inv' = Set(s, [inv[s] EXCEPT !.pc = "newTrigger"])
  /\ log' = <<>>
  /\ UNCHANGED <<cfgVars, v1Vars, queue, job, xlsx, temps, watchdogInstalled, folder>>

\* Lines 1134-1136 and 1350-1351: one trigger is created, the pause is logged.
PauseCreatesTrigger(s) ==
  /\ inv[s].pc = "newTrigger"
  /\ resumeTriggers' = resumeTriggers + 1
  /\ inv' = Set(s, [inv[s] EXCEPT !.pc = "after", !.outcome = "paused"])
  /\ log' = <<Ev("trigger_set", BETWEEN_PARTS_DELAY_MIN), Ev("part_pause", "pause")>>
  /\ UNCHANGED <<cfgVars, v1Vars, queue, job, xlsx, temps, watchdogInstalled, folder>>

\* The handlers without serialisation, scheduleResumeAt_ not atomic.
NextArm ==
  \/ NextConc
  \/ \E s \in Slots : PauseDeletesTriggers(s) \/ PauseCreatesTrigger(s)

SpecArm == InitConc /\ [][NextArm]_vars

\* C33: a successful scheduleResumeAt_ (v1: scheduleResume_) leaves exactly
\* one pending trigger of its handler, the earlier ones having been deleted
\* first; hence at most one resume trigger is pending in every reachable
\* state.
C33_AtMostOneResumeTrigger ==
  /\ resumeTriggers <= 1
  /\ resumeTriggersV1 <= 1

RawSecs == {t \div 1000 : t \in Times}

\* C35: the session_duration of a closed session is an integer between 0 and
\* rawSec, the whole seconds from start to end (0 when the end is the earlier
\* one or the start has no timestamp); and the capped duration does not
\* decrease as rawSec grows, for auto ends and for the other ends alike.
C35_DurationWithinRawAndMonotone ==
  Parsed =>
    \A i \in 1..Len(lines) : Closed(i) =>
      LET auto == IsAutoCheckIn(lines[CloserOf(i)].msg)
          d == out[i].session_duration
      IN  /\ d \in Int
          /\ 0 <= d /\ d <= RawSecOf(i)
          /\ \A r \in RawSecs :
               /\ r <= RawSecOf(i) => DurationSec(r, auto) <= d
               /\ r >= RawSecOf(i) => DurationSec(r, auto) >= d

\* A check-in 28001 s after the checkout: capped at 28000, below rawSec.
C35_Witness ==
  /\ Parsed
  /\ lines = TimeLines(0, "checked in recipe", 28001000)
  /\ out[1].session_duration = 28000

\* ------------------------------------- parseLinesToTable: row widths (C36)
\* String.prototype.split('|') from character i on: every pipe splits.
RECURSIVE SplitOnPipe(_, _, _, _)
SplitOnPipe(line, i, cur, acc) ==
  IF i > Len(line) THEN Append(acc, cur)
  ELSE IF line[i] = "|" THEN SplitOnPipe(line, i + 1, <<>>, Append(acc, cur))
  ELSE SplitOnPipe(line, i + 1, Append(cur, line[i]), acc)

\* Line 860: replace(/\s+/g, '_'), replace(/[^\w]/g, ''), toLowerCase() on a
\* trimmed header field: a run of blanks becomes one '_', a quote is dropped.
RECURSIVE HeaderName(_)
HeaderName(t) ==
  IF t = <<>> THEN <<>>
  ELSE IF t[1] = " "
  THEN IF Len(t) > 1 /\ t[2] = " " THEN HeaderName(Tail(t))
       ELSE <<"_">> \o HeaderName(Tail(t))
  ELSE IF t[1] = Quote THEN HeaderName(Tail(t))
  ELSE <<t[1]>> \o HeaderName(Tail(t))

\* Lines 859-866: the header row, the raw header fields renamed and the
\* names of the derived columns (each held as 'd').
HeaderRow(line) ==
  LET rawHeader == SplitOnPipe(line, 1, <<>>, <<>>)
  IN  [n \in 1..Len(rawHeader) |-> HeaderName(Trim(rawHeader[n]))]
      \o [n \in 1..DerivedFields |-> <<"d">>]

\* Lines 877-904: the row of a data line, its nine fields and the derived
\* cells (each held as '').
DataRow(line) ==
  LET cells == SplitPipesQuoted(line)
  IN  TryToNine([n \in 1..Len(cells) |-> Trim(cells[n])]).cols
      \o [n \in 1..DerivedFields |-> <<>>]

\* parseLinesToTable is about to read a header line (raw) and one data line
\* (lines[1]) of 1, 9 or MaxCells fields.
InitHeader ==
  /\ OneConfig
  /\ folder = {1}
  /\ raw \in FreeTexts \cup {JoinPipe(cells) : cells \in CellLists}
  /\ raw # <<>>
  /\ \E n \in {1, 9, MaxCells} : lines = <<JoinPipe([f \in 1..n |-> <<"a">>])>>
  /\ out = <<>>
  /\ lineIdx = 0
  /\ cells0 = <<>>
  /\ norm = NoNorm
  /\ badSink = NoSink
  /\ badLines = <<>>
  /\ linePc = "header"
  /\ NoRead

\* Lines 858-959: the table of the two lines.
ParseHeaderAndLine ==
  /\ linePc = "header"
  /\ out' = <<HeaderRow(raw), DataRow(lines[1])>>
  /\ linePc' = "returned"
  /\ UNCHANGED <<MAX_WRITE_ROWS_PER_RUN, AUTO_SPLIT_CHUNK_ROWS, WRITE_CHUNK_ROWS,
                 SHEET_CELL_LIMIT, csvLines, runner, lines, raw, lineIdx, cells0,
                 norm, badSink, badLines, v1Vars, v2Vars, readVars, log, inv,
                 folder>>

SpecHeader == InitHeader /\ [][ParseHeaderAndLine]_vars

\* C36: every row of the table parseLinesToTable returns, the header row
\* included, has table[0].length columns (the totalCols of the job), however
\* many fields the header line has; and every data row has 20 columns.
C36_RowsAsWideAsHeader ==
  linePc = "returned" =>
    /\ \A r \in 1..Len(out) : Len(out[r]) = Len(out[1])
    /\ \A r \in 2..Len(out) : Len(out[r]) = 9 + DerivedFields

\* C37: in every reachable state, after faults too, a persisted v2 job with
\* partIndex = k has the XLSX of every part 1..k-1 of its file in the output
\* folder, and its dataCursor is the number of data rows those parts hold.
C37_JobMatchesExportedParts ==
  job # NoJob =>
    /\ \A p \in 1..(job.partIndex - 1) : <<job.fileId, p>> \in DOMAIN xlsx
    /\ job.dataCursor = Len(PartsRows(job.fileId, job.partIndex - 1))

\* C38: whenever no handler is running, a fault having ended the last one
\* between two property writes or not, a persisted v2 job record is that of
\* the current entry of an unfinished queue, so completing it never moves the
\* queue past a file that was not processed.
C38_JobIsOfCurrentQueueEntry ==
  (AllIdle /\ job # NoJob /\ QueueUnfinished(queue))
    => job.fileId = CurrentItem(queue)

\* --------------------------------- resume_all_v2_safe returns armed (C39)
\* Slot s ends an invocation of resume_all_v2_safe by returning: from one of
\* the returns of resume_all_v2 (lines 256, 258-262, 292), or from the catch
\* block once its scheduleResumeAt_ has returned.  A step whose last log row
\* is 'trigger_error' is a throw; a step that logs nothing is the host
\* killing the execution, unless it is the return of line 292 on a job left
\* by a pause.
SafeReturns(s) ==
  /\ inv[s].wrapper = "safe"
  /\ Running(s)
  /\ inv'[s] = IdleInv
  /\ \/ inv[s].pc = "resume_all_v2" /\ log' # <<>>
     \/ inv[s].pc = "after" /\ (log' # <<>> \/ inv[s].outcome = "paused")
     \/ \E i \in 1..Len(log') : log'[i][1] = "resume_error"
  /\ log' # <<>> => log'[Len(log')][1] # "trigger_error"

\* C39: whenever resume_all_v2_safe returns without throwing and the queue
\* still has unfinished entries, a resume_all_v2_safe trigger is pending: on
\* the paused path, the between-files path and the error path.
C39_ReturnsArmedWhileUnfinished ==
  [][\A s \in Slots :
       (SafeReturns(s) /\ QueueUnfinished(queue')) => resumeTriggers' > 0]_vars

\* The error path: the catch block armed the retry 3 minutes ahead while
\* file 1 of two is in progress.
C39_Witness ==
  /\ AllIdle
  /\ QueueUnfinished(queue) /\ Len(queue.items) = 2
  /\ job # NoJob /\ job.partIndex > 1
  /\ log = <<Ev("resume_error", "error"), Ev("trigger_set", 3)>>
  /\ resumeTriggers = 1

\* -------------------------------- sessions over every kind of event (C40)
\* The longest input of InitMixed.
MaxMixed == 3

\* A start, an end, a message that is both, and one that is neither.
MixedMessages ==
  {"checked out recipe", "checked in recipe",
   "checked out recipe, auto-check in", "viewed recipe"}

\* Up to MaxMixed data lines of any kind and key; line i carries the
\* timestamp of second i or an unparseable one.
InitMixed ==
  /\ OneConfig
  /\ folder = {1}
  /\ \E n \in 1..MaxMixed :
       \E in \in [1..n -> MixedMessages \X Keys \X BOOLEAN] :
         lines = OrderLines(in)
  /\ out = <<>>
  /\ NoLine
  /\ NoRead

SpecMixed == InitMixed /\ [][ParseLinesToTable]_vars

\* Row i carries a session_end.
HasEnd(i) == out[i].session_end # Empty

====
